---- MODULE Spec2Model ----
(***************************************************************************)
(* State-machine model of robust-axios-client: the circuit breaker         *)
(* (src/utils/circuit-breaker.ts), the token bucket rate limiter, the LRU  *)
(* cache of retry contexts and the interceptor pipeline of                 *)
(* RobustAxiosClient (src/core/RobustAxiosClient.ts).                      *)
(* The requests modelled carry no timeout.                                  *)
(*                                                                         *)
(* Date.now() is the variable now, in milliseconds; it advances in steps   *)
(* of BackoffUnitMs, the unit of every built-in backoff delay.             *)
(***************************************************************************)
EXTENDS Integers, Sequences, FiniteSets, TLC

\* ------------------------------------------------------------------------
\* Bounds of the exploration
\* ------------------------------------------------------------------------
MaxTime == 3
NumReqs == 2
MaxRetries == 2
MaxCapacity == 2
MaxThreshold == 3
MaxHalfOpen == 2
MaxResetTimeout == 2
MaxFailures == 4
MaxTokens == 2
MaxWindow == 2
MaxWindows == 1
MaxAcquired == 4
MaxRetryCount == 5
MaxRetryAfter == 2
PollsPerWindow == 10

VARIABLES
  cfg,      \* the configuration the objects were constructed with
  now,      \* Date.now()
  cb,       \* the CircuitBreaker instance's fields
  last,     \* the last call made on the breaker: its name, result, observer
            \* calls, and a bit that flips at every call
  gh,       \* history kept for the properties (not program state)
  rl,       \* the TokenBucketRateLimiter instance's fields
  lru,      \* retryContexts: the LRUCache of RetryContext references
  heap,     \* the RetryContext objects, by reference
  reqs      \* the logical requests: where each is in the pipeline

cbvars == <<cfg, now, cb, last, gh>>
clientvars == <<rl, lru, heap, reqs>>
vars == <<cfg, now, cb, last, gh, rl, lru, heap, reqs>>

\* ------------------------------------------------------------------------
\* CircuitBreaker (src/utils/circuit-breaker.ts)
\* ------------------------------------------------------------------------
CircuitBreakerState == {"CLOSED", "OPEN", "HALF_OPEN"}

\* field initialisers of the class, with Date.now() = t
NewCircuitBreaker(t) ==
  [state |-> "CLOSED", failures |-> 0, lastStateChange |-> t,
   requestCount |-> 0, successCount |-> 0]

\* a call's outcome: the fields afterwards, the value returned, and the
\* states passed to onStateChange during the call
Outcome(b, r, n) == [cb |-> b, ret |-> r, notified |-> n]

transitionTo(b, newState, t) ==
  Outcome([b EXCEPT !.state = newState, !.lastStateChange = t], TRUE, <<newState>>)

\* variants of the methods with one comparison changed, which the properties
\* below must tell from the methods themselves
beforeRequestLate(b, t, c) ==
  CASE b.state = "CLOSED" -> Outcome(b, TRUE, <<>>)
    [] b.state = "OPEN" ->
         IF t - b.lastStateChange > c.resetTimeout
           THEN LET tr == transitionTo(b, "HALF_OPEN", t)
                IN Outcome([tr.cb EXCEPT !.requestCount = 0, !.successCount = 0],
                           TRUE, tr.notified)
           ELSE Outcome(b, FALSE, <<>>)
    [] b.state = "HALF_OPEN" ->
         IF b.requestCount < c.halfOpenMaxRequests
           THEN Outcome([b EXCEPT !.requestCount = @ + 1], TRUE, <<>>)
           ELSE Outcome(b, FALSE, <<>>)
    [] OTHER -> Outcome(b, FALSE, <<>>)

beforeRequestCounted(b, t, c) ==
  CASE b.state = "CLOSED" -> Outcome(b, TRUE, <<>>)
    [] b.state = "OPEN" ->
         IF t - b.lastStateChange >= c.resetTimeout
           THEN LET tr == transitionTo(b, "HALF_OPEN", t)
                IN Outcome([tr.cb EXCEPT !.requestCount = 1, !.successCount = 0],
                           TRUE, tr.notified)
           ELSE Outcome(b, FALSE, <<>>)
    [] b.state = "HALF_OPEN" ->
         IF b.requestCount < c.halfOpenMaxRequests
           THEN Outcome([b EXCEPT !.requestCount = @ + 1], TRUE, <<>>)
           ELSE Outcome(b, FALSE, <<>>)
    [] OTHER -> Outcome(b, FALSE, <<>>)

\* the method itself
beforeRequest(b, t, c) ==
  CASE b.state = "CLOSED" -> Outcome(b, TRUE, <<>>)
    [] b.state = "OPEN" ->
         IF t - b.lastStateChange >= c.resetTimeout
           THEN LET tr == transitionTo(b, "HALF_OPEN", t)
                IN Outcome([tr.cb EXCEPT !.requestCount = 0, !.successCount = 0],
                           TRUE, tr.notified)
           ELSE Outcome(b, FALSE, <<>>)
    [] b.state = "HALF_OPEN" ->
         IF b.requestCount < c.halfOpenMaxRequests
           THEN Outcome([b EXCEPT !.requestCount = @ + 1], TRUE, <<>>)
           ELSE Outcome(b, FALSE, <<>>)
    [] OTHER -> Outcome(b, FALSE, <<>>)

recordSuccessLate(b, t, c) ==
  LET counted == IF b.state = "HALF_OPEN"
                   THEN [b EXCEPT !.successCount = @ + 1]
                   ELSE b
      closed  == IF b.state = "HALF_OPEN" /\ counted.successCount > c.halfOpenMaxRequests
                   THEN LET tr == transitionTo(counted, "CLOSED", t)
                        IN Outcome([tr.cb EXCEPT !.requestCount = 0, !.successCount = 0],
                                   TRUE, tr.notified)
                   ELSE Outcome(counted, TRUE, <<>>)
  IN Outcome([closed.cb EXCEPT !.failures = 0], TRUE, closed.notified)

recordSuccess(b, t, c) ==
  LET counted == IF b.state = "HALF_OPEN"
                   THEN [b EXCEPT !.successCount = @ + 1]
                   ELSE b
      closed  == IF b.state = "HALF_OPEN" /\ counted.successCount >= c.halfOpenMaxRequests
                   THEN LET tr == transitionTo(counted, "CLOSED", t)
                        IN Outcome([tr.cb EXCEPT !.requestCount = 0, !.successCount = 0],
                                   TRUE, tr.notified)
                   ELSE Outcome(counted, TRUE, <<>>)
  IN Outcome([closed.cb EXCEPT !.failures = 0], TRUE, closed.notified)

recordFailureLate(b, t, c) ==
  LET counted == [b EXCEPT !.failures = @ + 1]
  IN IF counted.failures > c.failureThreshold
       THEN LET tr == transitionTo(counted, "OPEN", t)
            IN Outcome([tr.cb EXCEPT !.requestCount = 0, !.successCount = 0],
                       TRUE, tr.notified)
       ELSE Outcome(counted, TRUE, <<>>)

recordFailureKeepsTrials(b, t, c) ==
  LET counted == [b EXCEPT !.failures = @ + 1]
  IN IF counted.failures >= c.failureThreshold
       THEN LET tr == transitionTo(counted, "OPEN", t)
            IN Outcome(tr.cb, TRUE, tr.notified)
       ELSE Outcome(counted, TRUE, <<>>)

recordFailure(b, t, c) ==
  LET counted == [b EXCEPT !.failures = @ + 1]
  IN IF counted.failures >= c.failureThreshold
       THEN LET tr == transitionTo(counted, "OPEN", t)
            IN Outcome([tr.cb EXCEPT !.requestCount = 0, !.successCount = 0],
                       TRUE, tr.notified)
       ELSE Outcome(counted, TRUE, <<>>)

\* ------------------------------------------------------------------------
\* History of the breaker's calls, kept for the properties
\* ------------------------------------------------------------------------
\* consec:   failures recorded since the last recorded success
\* hoSucc:   successes recorded since the breaker last entered HALF_OPEN
\* openedAt: the time the breaker last went from another state to OPEN
\* hoAdmit:  requests admitted since the breaker last entered HALF_OPEN, the
\*           one whose beforeRequest() entered it included
NewHistory == [consec |-> 0, hoSucc |-> 0, openedAt |-> 0, hoAdmit |-> 0]

HistoryAfter(g, op, before, after, ret, t) ==
  [consec   |-> CASE op = "recordFailure" -> g.consec + 1
                  [] op = "recordSuccess" -> 0
                  [] OTHER -> g.consec,
   hoSucc   |-> CASE before.state # "HALF_OPEN" /\ after.state = "HALF_OPEN" -> 0
                  [] op = "recordSuccess" /\ before.state = "HALF_OPEN" -> g.hoSucc + 1
                  [] OTHER -> g.hoSucc,
   openedAt |-> IF before.state # "OPEN" /\ after.state = "OPEN" THEN t ELSE g.openedAt,
   hoAdmit  |-> CASE before.state # "HALF_OPEN" /\ after.state = "HALF_OPEN" -> 1
                  [] op = "beforeRequest" /\ before.state = "HALF_OPEN" /\ ret ->
                       g.hoAdmit + 1
                  [] OTHER -> g.hoAdmit]

\* ------------------------------------------------------------------------
\* Numbers (IEEE 754 double precision, as the limiter's token count needs it)
\* ------------------------------------------------------------------------
Min(a, b) == IF a < b THEN a ELSE b
Max(a, b) == IF a > b THEN a ELSE b

\* F of the value of x, and of the values of x and y: the arguments are
\* computed once, before F is, as the arguments of a call are
Apply1(F(_), x) == CHOOSE r \in {F(v) : v \in {x}} : TRUE
Apply2(F(_, _), x, y) == CHOOSE r \in {F(v[1], v[2]) : v \in {<<x, y>>}} : TRUE
Apply3(F(_, _, _), x, y, z) ==
  CHOOSE r \in {F(v[1], v[2], v[3]) : v \in {<<x, y, z>>}} : TRUE

\* A natural number of any size is the sequence of its digits in base
\* LimbBase, least significant first, without leading zeros.
LimbBits == 15
LimbBase == 2 ^ LimbBits

RECURSIVE BigNorm(_)
BigNorm(a) ==
  IF a # <<>> /\ a[Len(a)] = 0 THEN Apply1(BigNorm, SubSeq(a, 1, Len(a) - 1)) ELSE a

RECURSIVE BigFromInt(_)
BigFromInt(n) == IF n = 0 THEN <<>> ELSE <<n % LimbBase>> \o BigFromInt(n \div LimbBase)

RECURSIVE BigAddCarry(_, _, _)
BigAddCarry(a, b, carry) ==
  IF a = <<>> /\ b = <<>>
    THEN (IF carry = 0 THEN <<>> ELSE <<carry>>)
    ELSE LET x   == IF a = <<>> THEN 0 ELSE Head(a)
             y   == IF b = <<>> THEN 0 ELSE Head(b)
             sum == x + y + carry
         IN <<sum % LimbBase>>
              \o Apply3(BigAddCarry, IF a = <<>> THEN a ELSE Tail(a),
                        IF b = <<>> THEN b ELSE Tail(b), sum \div LimbBase)

BigAdd(a, b) == Apply3(BigAddCarry, a, b, 0)

\* a - b for a >= b
RECURSIVE BigSubBorrow(_, _, _)
BigSubBorrow(a, b, borrow) ==
  IF a = <<>> THEN <<>>
  ELSE LET y    == IF b = <<>> THEN 0 ELSE Head(b)
           diff == Head(a) - y - borrow
       IN <<diff % LimbBase>>
            \o Apply3(BigSubBorrow, Tail(a), IF b = <<>> THEN b ELSE Tail(b),
                      IF diff < 0 THEN 1 ELSE 0)

BigSub(a, b) == Apply1(BigNorm, Apply3(BigSubBorrow, a, b, 0))

\* a * d + carry for one digit d
RECURSIVE BigMulLimb(_, _, _)
BigMulLimb(a, d, carry) ==
  IF a = <<>>
    THEN (IF carry = 0 THEN <<>> ELSE <<carry>>)
    ELSE LET p == Head(a) * d + carry
         IN <<p % LimbBase>> \o Apply3(BigMulLimb, Tail(a), d, p \div LimbBase)

RECURSIVE BigMul(_, _)
BigMul(a, b) ==
  IF a = <<>> \/ b = <<>> THEN <<>>
  ELSE BigAdd(BigMulLimb(a, Head(b), 0),
              IF Tail(b) = <<>> THEN <<>> ELSE <<0>> \o Apply2(BigMul, a, Tail(b)))

\* quotient and remainder of a by a divisor d <= LimbBase
RECURSIVE BigDivLimb(_, _)
BigDivLimb(a, d) ==
  IF a = <<>> THEN [q |-> <<>>, r |-> 0]
  ELSE Apply1(LAMBDA hi : LET cur == hi.r * LimbBase + Head(a)
                           IN [q |-> <<cur \div d>> \o hi.q, r |-> cur % d],
              BigDivLimb(Tail(a), d))

RECURSIVE IntBitLen(_)
IntBitLen(n) == IF n = 0 THEN 0 ELSE 1 + IntBitLen(n \div 2)

BigBitLen(a) == IF a = <<>> THEN 0 ELSE LimbBits * (Len(a) - 1) + IntBitLen(a[Len(a)])

BigIsOdd(a) == a # <<>> /\ a[1] % 2 = 1

\* a * 2^s
BigShl(a, s) ==
  IF a = <<>> THEN a
  ELSE [i \in 1..(s \div LimbBits) |-> 0] \o Apply3(BigMulLimb, a, 2 ^ (s % LimbBits), 0)

\* a \div 2^s, and whether a bit that was shifted out was 1
BigShr(a, s) ==
  LET whole == Min(s \div LimbBits, Len(a))
      low   == SubSeq(a, 1, whole)
      high  == SubSeq(a, whole + 1, Len(a))
  IN Apply1(LAMBDA d : [q |-> BigNorm(d.q),
                        sticky |-> d.r # 0 \/ \E i \in 1..whole : low[i] # 0],
            BigDivLimb(high, 2 ^ (s % LimbBits)))

\* -1, 0, 1 as a < b, a = b, a > b
RECURSIVE BigCmp(_, _)
BigCmp(a, b) ==
  IF Len(a) # Len(b) THEN (IF Len(a) < Len(b) THEN -1 ELSE 1)
  ELSE IF a = <<>> THEN 0
  ELSE IF a[Len(a)] # b[Len(b)] THEN (IF a[Len(a)] < b[Len(b)] THEN -1 ELSE 1)
  ELSE Apply2(BigCmp, SubSeq(a, 1, Len(a) - 1), SubSeq(b, 1, Len(b) - 1))

\* the number of times 2 divides n > 0
RECURSIVE IntTrailingZeros(_)
IntTrailingZeros(n) == IF n % 2 = 1 THEN 0 ELSE 1 + IntTrailingZeros(n \div 2)

BigTrailingZeros(a) ==
  IF a = <<>> THEN 0
  ELSE LET i == CHOOSE i \in 1..Len(a) : a[i] # 0 /\ \A j \in 1..(i - 1) : a[j] = 0
       IN LimbBits * (i - 1) + IntTrailingZeros(a[i])

\* A finite number >= 0 is m * 2^e with m < 2^MantissaBits; m is kept odd
\* (or 0 with e = 0), so that equal numbers are equal records.
MantissaBits == 53

FloatCanon(m, e) ==
  Apply2(LAMBDA v, tz : IF v = <<>> THEN [m |-> <<>>, e |-> 0]
                        ELSE [m |-> BigShr(v, tz).q, e |-> e + tz],
         m, BigTrailingZeros(m))

\* the number nearest to (m + f) * 2^e, ties to even, where 0 <= f < 1 and
\* f > 0 iff sticky (sticky only with m of more than MantissaBits + 1 bits)
FloatRound(m, e, sticky) ==
  IF BigBitLen(m) <= MantissaBits
    THEN FloatCanon(m, e)
    ELSE LET s == BigBitLen(m) - MantissaBits
         IN Apply1(LAMBDA guarded :
                     LET roundBit == BigIsOdd(guarded.q)
                         q        == BigShr(guarded.q, 1).q
                         up       == roundBit /\ (guarded.sticky \/ sticky \/ BigIsOdd(q))
                     IN FloatCanon(IF up THEN BigAdd(q, <<1>>) ELSE q, e + s),
                   BigShr(m, s - 1))

\* an integer 0 <= n < 2^31 as a number
FloatOfInt(n) == FloatCanon(BigFromInt(n), 0)

\* a / b for integers a >= 0 and 0 < b <= LimbBase
FloatDivInt(a, b) ==
  LET k == MantissaBits + 2 + IntBitLen(b)
  IN Apply1(LAMBDA d : Apply1(LAMBDA q : FloatRound(q, 0 - k, d.r # 0), BigNorm(d.q)),
            BigDivLimb(BigShl(BigFromInt(a), k), b))

\* the significands of x and y at their common exponent
FloatAlign(x, y) ==
  LET e0 == Min(x.e, y.e)
  IN [x |-> BigShl(x.m, x.e - e0), y |-> BigShl(y.m, y.e - e0), e |-> e0]

FloatMul(x, y) ==
  Apply2(LAMBDA a, b : Apply1(LAMBDA m : FloatRound(m, a.e + b.e, FALSE), BigMul(a.m, b.m)),
         x, y)

FloatAdd(x, y) ==
  Apply2(LAMBDA a, b :
           Apply1(LAMBDA al : Apply1(LAMBDA m : FloatRound(m, al.e, FALSE), BigAdd(al.x, al.y)),
                  FloatAlign(a, b)),
         x, y)

FloatCmp(x, y) ==
  Apply2(LAMBDA a, b : Apply1(LAMBDA al : BigCmp(al.x, al.y), FloatAlign(a, b)), x, y)

\* x - y for x >= y
FloatSub(x, y) ==
  Apply2(LAMBDA a, b :
           Apply1(LAMBDA al : Apply1(LAMBDA m : FloatRound(m, al.e, FALSE), BigSub(al.x, al.y)),
                  FloatAlign(a, b)),
         x, y)

\* Math.min
FloatMin(x, y) == Apply2(LAMBDA a, b : IF FloatCmp(b, a) < 0 THEN b ELSE a, x, y)

\* ------------------------------------------------------------------------
\* TokenBucketRateLimiter (src/utils/rate-limiter.ts)
\* ------------------------------------------------------------------------
NewTokenBucketRateLimiter(maxRequests, windowMs, t) ==
  [maxTokens |-> FloatOfInt(maxRequests),
   tokens |-> FloatOfInt(maxRequests),
   lastRefill |-> t,
   refillRate |-> FloatDivInt(maxRequests, windowMs)]

\* variant of refill without the cap, which the properties must tell from it
refillUncapped(l, t) ==
  LET timePassed == t - l.lastRefill
      newTokens  == FloatMul(FloatOfInt(timePassed), l.refillRate)
  IN [l EXCEPT !.tokens = FloatAdd(l.tokens, newTokens),
               !.lastRefill = t]

refill(l, t) ==
  LET timePassed == t - l.lastRefill
      newTokens  == FloatMul(FloatOfInt(timePassed), l.refillRate)
  IN [l EXCEPT !.tokens = FloatMin(l.maxTokens, FloatAdd(l.tokens, newTokens)),
               !.lastRefill = t]

\* this.refill() first, then the token is taken if there is a whole one
tryAcquire(l, t) ==
  Apply1(LAMBDA r : IF FloatCmp(r.tokens, FloatOfInt(1)) >= 0
                      THEN [rl |-> [r EXCEPT !.tokens = FloatSub(@, FloatOfInt(1))],
                            ret |-> TRUE]
                      ELSE [rl |-> r, ret |-> FALSE],
         refill(l, t))

\* ------------------------------------------------------------------------
\* LRUCache (src/utils/lru-cache.ts)
\* ------------------------------------------------------------------------
\* cache is the Map of values; list is the doubly linked list of keys from
\* head (most recently used) to tail; every key of the list has its node.
Undefined == 0

NewLRUCache(capacity) == [capacity |-> Max(1, capacity), cache |-> <<>>, list |-> <<>>]

Has(c, key) == key \in DOMAIN c.cache

removeNode(list, key) == SelectSeq(list, LAMBDA k : k # key)

addNodeToFront(list, key) == <<key>> \o list

markAsUsed(c, key) ==
  IF \E i \in 1..Len(c.list) : c.list[i] = key
    THEN [c EXCEPT !.list = addNodeToFront(removeNode(@, key), key)]
    ELSE c

evictLRU(c) ==
  IF c.list # <<>>
    THEN LET key == c.list[Len(c.list)]
         IN [c EXCEPT !.list = removeNode(@, key),
                      !.cache = [k \in DOMAIN @ \ {key} |-> @[k]]]
    ELSE c

LRUGet(c, key) ==
  IF Has(c, key) /\ c.cache[key] # Undefined
    THEN [lru |-> markAsUsed(c, key), ret |-> c.cache[key]]
    ELSE [lru |-> c, ret |-> Undefined]

LRUSet(c, key, value) ==
  IF Has(c, key)
    THEN markAsUsed([c EXCEPT !.cache[key] = value], key)
    ELSE LET room == IF Cardinality(DOMAIN c.cache) >= c.capacity THEN evictLRU(c) ELSE c
         IN [room EXCEPT !.cache = (key :> value) @@ @,
                         !.list = addNodeToFront(@, key)]

LRUDelete(c, key) ==
  IF ~Has(c, key)
    THEN c
    ELSE [c EXCEPT !.list = removeNode(@, key),
                   !.cache = [k \in DOMAIN @ \ {key} |-> @[k]]]

LRUClear(c) == [c EXCEPT !.cache = <<>>, !.list = <<>>]

\* ------------------------------------------------------------------------
\* Request configurations and generateRequestId
\* ------------------------------------------------------------------------
\* A body (config.data) is absent, a string, or a plain object; an object is
\* given by its keys in insertion order (the values play no part), a string
\* by its text.  Texts are sequences of tokens.
NoData == [type |-> "none", keys |-> <<>>, text |-> <<>>]
ObjectData(keys) == [type |-> "object", keys |-> keys, text |-> <<>>]
StringData(text) == [type |-> "string", keys |-> <<>>, text |-> text]

\* the lexicographic order of the property names in use
KeyNames == <<"a", "b">>
Rank(k) == CHOOSE i \in 1..Len(KeyNames) : KeyNames[i] = k
SortKeys(keys) == SortSeq(keys, LAMBDA x, y : Rank(x) < Rank(y))

\* JSON.stringify of an object whose keys are enumerated in the order keys
JSONStringify(keys) == <<"{">> \o keys \o <<"}">>

\* axios' default transformRequest, applied by the transport to config.data
\* before sending: a plain object becomes its JSON text
TransformRequest(data) ==
  IF data.type = "object" THEN StringData(JSONStringify(data.keys)) ELSE data

ToUpperCase(method) ==
  CASE method = "get" -> "GET"
    [] method = "post" -> "POST"
    [] OTHER -> method

\* variant of the key that leaves out the path
generateRequestIdNoPath(config) ==
  LET method  == IF config.method # "" THEN ToUpperCase(config.method) ELSE "UNKNOWN"
      baseUrl == config.baseURL
      fullUri == IF baseUrl # "" THEN <<baseUrl>> ELSE <<"unknown_uri">>
      paramsString == IF config.params # <<>>
                        THEN JSONStringify(SortKeys(config.params))
                        ELSE <<"[NO_PARAMS]">>
      dataString == CASE config.data.type = "string" -> config.data.text
                      [] config.data.type = "object" ->
                           JSONStringify(SortKeys(config.data.keys))
                      [] OTHER -> <<"[NO_DATA]">>
  IN <<<<method>>, fullUri, paramsString, dataString>>

generateRequestId(config) ==
  LET method  == IF config.method # "" THEN ToUpperCase(config.method) ELSE "UNKNOWN"
      baseUrl == config.baseURL
      path    == config.url
      fullUri == IF baseUrl # "" /\ path # "" THEN <<baseUrl, "/", path>>
                 ELSE IF baseUrl # "" THEN <<baseUrl>>
                 ELSE IF path # "" THEN <<path>>
                 ELSE <<"unknown_uri">>
      paramsString == IF config.params # <<>>
                        THEN JSONStringify(SortKeys(config.params))
                        ELSE <<"[NO_PARAMS]">>
      dataString == CASE config.data.type = "string" -> config.data.text
                      [] config.data.type = "object" ->
                           JSONStringify(SortKeys(config.data.keys))
                      [] OTHER -> <<"[NO_DATA]">>
  IN <<<<method>>, fullUri, paramsString, dataString>>

\* ------------------------------------------------------------------------
\* Errors and their classification (handleError)
\* ------------------------------------------------------------------------
\* status 0 stands for "no response"; retryAfter is the Retry-After header of
\* the response, in seconds, NoHeader when the response has none; url is
\* config.url, "" when the configuration has none; details is the text
\* JSON.stringify gives for response.data.errors || response.data.details,
\* NoDetails when the body has neither
NoHeader == 0
NoDetails == ""

AxiosErrorAt(status, code, retryAfter, url) ==
  [name |-> "AxiosError", status |-> status, code |-> code, message |-> "Request failed",
   retryAfter |-> retryAfter, url |-> url, details |-> NoDetails]

\* a failure whose response body lists what was wrong with the request
AxiosErrorDetails(status, details) ==
  [AxiosErrorAt(status, "", NoHeader, "") EXCEPT !.details = details]

AxiosErrorWith(status, code, retryAfter) == AxiosErrorAt(status, code, retryAfter, "")

AxiosError(status, code) == AxiosErrorWith(status, code, NoHeader)

LibError(name, message) ==
  [name |-> name, status |-> 0, code |-> "", message |-> message]

HttpErrorOf(name, status) ==
  [name |-> name, status |-> status, code |-> "", message |-> "Request failed"]

Response(status) ==
  [name |-> "Response", status |-> status, code |-> "", message |-> "OK"]

CircuitOpenError == LibError("Error", "Circuit breaker is open")

CancellationError(message) == LibError("CancellationError", message)

\* the words String.includes() is asked about, for the messages in use
\* (the search is case sensitive)
Includes(message, word) ==
  word \in (CASE message = "timeout exceeded" -> {"timeout"}
              [] message = "network down" -> {"network"}
              [] message = "Custom: upstream timeout" -> {"timeout"}
              [] message = "Custom: no connection to the database" -> {"connection"}
              [] message = "Custom: Network problem occurred" -> {}
              [] OTHER -> {})

\* the urls new URL() parses: those with a scheme; for the others it throws
ParsesAsURL(url) == url \in {"https://example.com/a"}

\* customErrorHandler(error): "" is no handler; "wrap" returns an Error of the
\* application's own for every error; "log" returns nothing; "same" returns
\* the error it was given; the others return a new error of the taxonomy or
\* a plain Error
CustomError == LibError("CustomError", "handled by the application")

\* a value that is not an Error (what a handler that only logs returns)
NotAnError == [name |-> "", status |-> 0, code |-> "", message |-> ""]

InstanceOfError(value) == value.name # ""

customErrorHandler(error, handler) ==
  CASE handler = "wrap" -> CustomError
    [] handler = "same" -> error
    [] handler = "rateLimit" -> LibError("RateLimitError", "Custom rate limit from handler")
    [] handler = "server" ->
         [name |-> "ServerError", status |-> 503, code |-> "",
          message |-> "Custom server error from handler"]
    [] handler = "serverTimeout" ->
         [name |-> "ServerError", status |-> 504, code |-> "",
          message |-> "Custom: upstream timeout"]
    [] handler = "generic" -> LibError("Error", "Custom: Network problem occurred")
    [] handler = "genericConnection" ->
         LibError("Error", "Custom: no connection to the database")
    [] OTHER -> NotAnError

handleError(error, c) ==
  LET customHandlerResult == customErrorHandler(error, c.customErrorHandler)
      processedError == IF c.customErrorHandler # "" /\ InstanceOfError(customHandlerResult)
                          THEN customHandlerResult ELSE error
  IN CASE processedError.name \in {"RateLimitError", "CancellationError",
                                   "TimeoutError", "ValidationError"} -> processedError
       [] processedError.name = "AxiosError" ->
            LET status == processedError.status
            IN CASE status = 0 /\ processedError.code \in {"ECONNABORTED", "ETIMEDOUT"} ->
                      LibError("TimeoutError", "timed out")
                 [] status = 0 /\ processedError.code = "ENOTFOUND"
                      /\ processedError.url # "" /\ ~ParsesAsURL(processedError.url) ->
                      \* new URL(axiosError.config.url) throws
                      LibError("TypeError", "Invalid URL")
                 [] status = 0 -> LibError("NetworkError", "network error")
                 [] status >= 400 /\ status < 500 /\ status = 429 ->
                      IF processedError.retryAfter # NoHeader
                        THEN LibError("RateLimitError",
                                      <<"Rate limit exceeded. Retry after ",
                                        processedError.retryAfter, " seconds">>)
                        ELSE LibError("RateLimitError", "Rate limit exceeded")
                 [] status >= 400 /\ status < 500 /\ status = 422 ->
                      IF processedError.details # NoDetails
                        THEN LibError("ValidationError",
                                      <<"Validation failed: ", processedError.details>>)
                        ELSE LibError("ValidationError", processedError.message)
                 [] status >= 400 /\ status < 500 /\ status = 401 ->
                      [HttpErrorOf("ClientError", status)
                         EXCEPT !.message = "Authentication required"]
                 [] status >= 400 /\ status < 500 /\ status = 403 ->
                      [HttpErrorOf("ClientError", status)
                         EXCEPT !.message = "Permission denied"]
                 [] status >= 400 /\ status < 500 /\ status = 404 ->
                      [HttpErrorOf("ClientError", status)
                         EXCEPT !.message =
                           <<"Resource not found: ",
                             IF processedError.url # "" THEN processedError.url
                                                        ELSE "unknown">>]
                 [] status >= 400 /\ status < 500 -> HttpErrorOf("ClientError", status)
                 [] status >= 500 -> HttpErrorOf("ServerError", status)
                 [] OTHER -> HttpErrorOf("HttpError", status)
       [] Includes(processedError.message, "timeout") ->
            LibError("TimeoutError", "Operation timed out")
       [] Includes(processedError.message, "network")
            \/ Includes(processedError.message, "connection") ->
            LibError("NetworkError", "Network issue")
       [] OTHER -> processedError

\* ------------------------------------------------------------------------
\* Retry decisions (src/constants.ts, shouldRetry, calculateRetryDelay)
\* ------------------------------------------------------------------------
BackoffUnitMs == 1000

DefaultRetryCondition(error) ==
  \/ error.status = 0
  \/ error.status >= 500
  \/ error.status = 429
  \/ error.code = "ECONNABORTED"

\* a setting a category leaves unset (undefined, so that ?? falls back to the
\* client-wide value)
Unset == -1

NoSettings ==
  [maxRetries |-> Unset, retryCondition |-> "", backoffStrategy |-> "", customBackoff |-> Unset]

\* requestCategories is the list of the categories in the order in which the
\* configuration declares them: a name, the urls the matcher accepts, the
\* settings.  The category undefined is "".

\* the number a property name stands for when it is an array index, for the
\* names in use; Unset for the other names
IndexValue(name) ==
  CASE name = "1" -> 1
    [] name = "2" -> 2
    [] OTHER -> Unset

\* Object.entries: the properties whose names are array indices come first, in
\* ascending order, then the others in the order of their creation
ObjectEntries(categories) ==
  SortSeq(SelectSeq(categories, LAMBDA x : IndexValue(x.name) # Unset),
          LAMBDA x, y : IndexValue(x.name) < IndexValue(y.name))
    \o SelectSeq(categories, LAMBDA x : IndexValue(x.name) = Unset)

determineRequestCategory(config, c) ==
  LET entries  == ObjectEntries(c.requestCategories)
      matching == {i \in 1..Len(entries) : config.url \in entries[i].matcher}
  IN IF matching = {} THEN ""
     ELSE entries[CHOOSE i \in matching : \A j \in matching : i <= j].name

getCategorySettings(category, c) ==
  LET named == {i \in 1..Len(c.requestCategories) : c.requestCategories[i].name = category}
  IN IF category = "" \/ named = {} THEN NoSettings
     ELSE c.requestCategories[CHOOSE i \in named : TRUE].settings

\* categorySettings?.maxRetries ?? this.retryConfig.maxRetries
EffectiveMaxRetries(context, c) ==
  LET categorySettings == getCategorySettings(context.category, c)
  IN IF categorySettings.maxRetries # Unset THEN categorySettings.maxRetries ELSE c.maxRetries

\* variant in which a condition that throws counts as a reason to retry
RetryConditionValueLoose(error, retryCondition) ==
  CASE retryCondition = "default" -> DefaultRetryCondition(error)
    [] retryCondition = "throws" -> TRUE
    [] OTHER -> FALSE

\* the value the retry condition gives for the error; a condition that throws
\* is caught by shouldRetry and gives FALSE
RetryConditionValue(error, retryCondition) ==
  CASE retryCondition = "default" -> DefaultRetryCondition(error)
    [] retryCondition = "throws" -> FALSE
    [] OTHER -> FALSE

\* the value shouldRetry's promise resolves to: it is fixed when shouldRetry
\* is called, and delivered to handleErrorResponse after the await
shouldRetry(error, context, c) ==
  LET categorySettings == getCategorySettings(context.category, c)
      retryCondition   == IF categorySettings.retryCondition # ""
                            THEN categorySettings.retryCondition ELSE c.retryCondition
  IN IF context.retryCount >= EffectiveMaxRetries(context, c)
       THEN FALSE
       ELSE RetryConditionValue(error, retryCondition)

\* how many times this call of shouldRetry calls the retry condition
RetryConditionCalls(error, context, c) ==
  IF context.retryCount >= EffectiveMaxRetries(context, c) THEN 0 ELSE 1

\* variant of the loop that stops one round early
RECURSIVE FibLoopShort(_, _, _, _)
FibLoopShort(i, n, prev, current) ==
  IF i < n THEN FibLoopShort(i + 1, n, current, prev + current) ELSE current

RECURSIVE FibLoop(_, _, _, _)
FibLoop(i, n, prev, current) ==
  IF i <= n THEN FibLoop(i + 1, n, current, prev + current) ELSE current

calculateFibonacciDelay(n) ==
  IF n <= 0 THEN 0
  ELSE IF n = 1 THEN 1000
  ELSE FibLoop(2, n, 0, 1) * 1000

\* A customBackoff function is given by the milliseconds it adds per retry:
\* (retryCount, error) => retryCount * perRetry.  The default one
\* (src/constants.ts) has perRetry = 1000.
ApplyCustomBackoff(perRetry, retryCount, error) == retryCount * perRetry

calculateRetryDelay(context, error, c) ==
  LET categorySettings == getCategorySettings(context.category, c)
      backoffStrategy  == IF categorySettings.backoffStrategy # ""
                            THEN categorySettings.backoffStrategy ELSE c.backoffStrategy
      customBackoff    == IF categorySettings.customBackoff # Unset
                            THEN categorySettings.customBackoff ELSE c.customBackoff
  IN CASE backoffStrategy = "exponential" -> (2 ^ context.retryCount) * 1000
       [] backoffStrategy = "linear" -> context.retryCount * 1000
       [] backoffStrategy = "fibonacci" -> calculateFibonacciDelay(context.retryCount)
       [] backoffStrategy = "custom" ->
            ApplyCustomBackoff(customBackoff, context.retryCount, error)
       [] OTHER -> 1000

\* ------------------------------------------------------------------------
\* The breaker used directly (the class is exported by src/index.ts)
\* ------------------------------------------------------------------------
BreakerConfigs ==
  [failureThreshold : 1..MaxThreshold,
   resetTimeout : {k * BackoffUnitMs : k \in 1..MaxResetTimeout},
   halfOpenMaxRequests : 1..MaxHalfOpen]

InitCB ==
  /\ cfg \in BreakerConfigs
  /\ now = 0
  /\ cb = NewCircuitBreaker(0)
  /\ last = [op |-> "new", ret |-> TRUE, notified |-> <<>>, seq |-> 0]
  /\ gh = NewHistory
  /\ rl = NewTokenBucketRateLimiter(1, BackoffUnitMs, 0)
  /\ lru = NewLRUCache(1)
  /\ heap = <<>>
  /\ reqs = <<>>

CBCall(op, out) ==
  /\ cb' = out.cb
  /\ last' = [op |-> op, ret |-> out.ret, notified |-> out.notified, seq |-> 1 - last.seq]
  /\ gh' = HistoryAfter(gh, op, cb, out.cb, out.ret, now)

CallBeforeRequest ==
  /\ CBCall("beforeRequest", beforeRequest(cb, now, cfg))
  /\ UNCHANGED <<cfg, now, rl, lru, heap, reqs>>

CallRecordSuccess ==
  /\ CBCall("recordSuccess", recordSuccess(cb, now, cfg))
  /\ UNCHANGED <<cfg, now, rl, lru, heap, reqs>>

CallRecordFailure ==
  /\ cb.failures < MaxFailures
  /\ CBCall("recordFailure", recordFailure(cb, now, cfg))
  /\ UNCHANGED <<cfg, now, rl, lru, heap, reqs>>

\* Scheduling.  The awaits of handleRequestInterception resume in microtasks,
\* and so do the awaits of shouldRetry and onRetry when the retry condition
\* and the hook are synchronous functions; the event loop runs no timer and
\* delivers no transport answer while a microtask is pending.  An
\* asynchronous retry condition or hook (c.asyncHooks) takes its time.
MicrotaskPcs(c) ==
  IF c.asyncHooks THEN {"rate", "track", "dispatch"}
  ELSE {"rate", "track", "dispatch", "await", "hook"}

Busy == \E r \in DOMAIN reqs : reqs[r].pc \in MicrotaskPcs(cfg)

Tick ==
  /\ now < MaxTime * BackoffUnitMs
  /\ ~Busy
  /\ now' = now + BackoffUnitMs
  /\ UNCHANGED <<cfg, cb, last, gh, rl, lru, heap, reqs>>

NextCB == CallBeforeRequest \/ CallRecordSuccess \/ CallRecordFailure \/ Tick

SpecCB == InitCB /\ [][NextCB]_vars

\* ------------------------------------------------------------------------
\* The rate limiter used directly (the class is exported by src/index.ts)
\* ------------------------------------------------------------------------
\* History of the limiter's calls, kept for the properties:
\*   log        the times of the successful acquisitions
\*   emptiedAt  the time of the last successful acquisition if it left no
\*              token at all, Unset otherwise
\*   fullAt     the instant of a call that found the bucket full, as long as
\*              every later call was made at that same instant; Unset otherwise
\*   calls, wins  the calls made at fullAt from that call on (counted up to
\*              maxRequests + 1), and how many of them returned true
NewLimiterHistory == [log |-> <<>>, emptiedAt |-> Unset, fullAt |-> Unset, calls |-> 0, wins |-> 0]

LimiterHistoryAfter(g, before, out, t, c) ==
  LET full == refill(before, t).tokens = before.maxTokens
      won  == IF out.ret THEN 1 ELSE 0
  IN [log       |-> IF out.ret THEN Append(g.log, t) ELSE g.log,
      emptiedAt |-> IF out.ret
                      THEN (IF out.rl.tokens = FloatOfInt(0) THEN t ELSE Unset)
                      ELSE g.emptiedAt,
      fullAt    |-> IF full \/ g.fullAt = t THEN t ELSE Unset,
      calls     |-> CASE full -> 1
                      [] g.fullAt = t -> Min(g.calls + 1, c.maxRequests + 1)
                      [] OTHER -> 0,
      wins      |-> CASE full -> won
                      [] g.fullAt = t -> g.wins + won
                      [] OTHER -> 0]

LimiterConfigs ==
  [maxRequests : 1..MaxTokens,
   windowMs : {k * BackoffUnitMs : k \in 1..MaxWindow}]

InitRL ==
  /\ cfg \in LimiterConfigs
  /\ now = 0
  /\ cb = NewCircuitBreaker(0)
  /\ last = [op |-> "new", ret |-> TRUE, notified |-> <<>>, seq |-> 0]
  /\ gh = NewLimiterHistory
  /\ rl = NewTokenBucketRateLimiter(cfg.maxRequests, cfg.windowMs, 0)
  /\ lru = NewLRUCache(1)
  /\ heap = <<>>
  /\ reqs = <<>>

CallTryAcquire ==
  /\ Len(gh.log) < MaxAcquired
  /\ LET out == tryAcquire(rl, now)
     IN /\ rl' = out.rl
        /\ last' = [op |-> "tryAcquire", ret |-> out.ret, notified |-> <<>>,
                    seq |-> 1 - last.seq]
        /\ gh' = LimiterHistoryAfter(gh, rl, out, now, cfg)
  /\ UNCHANGED <<cfg, now, cb, lru, heap, reqs>>

\* the clock advances by one polling interval
Elapse ==
  /\ now < MaxWindows * cfg.windowMs
  /\ now' = now + cfg.windowMs \div PollsPerWindow
  /\ UNCHANGED <<cfg, cb, last, gh, rl, lru, heap, reqs>>

NextRL == CallTryAcquire \/ Elapse

SpecRL == InitRL /\ [][NextRL]_vars

\* ------------------------------------------------------------------------
\* RobustAxiosClient: the interceptor pipeline
\* ------------------------------------------------------------------------
Reqs == 1..NumReqs

\* the counters kept about a request stop counting here
MaxSent == MaxRetries + 2
MaxLog == MaxRetries + 1

\* where a logical request is:
\*   idle   not issued yet
\*   rate   admitted by the breaker, before the rate limiter check
\*   track  admitted by the rate limiter, before its context is stored
\*   sent   at the transport, waiting for the answer
\*   await  handleErrorResponse is awaiting shouldRetry
\*   hook   performRetry is awaiting onRetry
\*   delay  performRetry is waiting for the retry delay
\*   done   settled: result is what the caller got
NullCtx ==
  [retryCount |-> 0, startTime |-> 0, attempts |-> <<>>, requestConfig |-> 0, category |-> ""]

CtxIds == 1..(MaxCapacity + NumReqs)

\* the contexts some part of the program still refers to
Live(c, rs) ==
  {c.cache[k] : k \in DOMAIN c.cache}
    \cup {rs[r].ctx : r \in {q \in Reqs : rs[q].pc \in {"await", "hook"}}}

Collect(h, c, rs) == [i \in CtxIds |-> IF i \in Live(c, rs) THEN h[i] ELSE NullCtx]

FreshCtx(c, rs) == CHOOSE i \in CtxIds \ Live(c, rs) : \A j \in CtxIds \ Live(c, rs) : i <= j

\* what the transport may answer to an attempt: a retryable failure, a
\* failure that is not retryable, or a response
RetryableStatus == 500
Answers == {RetryableStatus, 404, 200}

GetA == [method |-> "get", baseURL |-> "https://example.com", url |-> "a",
         params |-> <<>>, data |-> NoData]
GetB == [method |-> "get", baseURL |-> "https://example.com", url |-> "b",
         params |-> <<>>, data |-> NoData]
PostA == [method |-> "post", baseURL |-> "https://example.com", url |-> "a",
          params |-> <<>>, data |-> ObjectData(<<"b", "a">>)]

RequestConfigs == {GetA, GetB, PostA}

\* cancelled is config.cancelToken.reason being set: the caller has triggered
\* the request's cancel token.  asked is the number of calls of the retry
\* condition made for the last failure.
\* sent, fails, answer and hooks record what happened to the request: the
\* attempts handed to the transport, how many of them were answered with a
\* retryable failure, the last answer, and the retryCount each call of
\* onRetry saw
NewRequest ==
  [pc |-> "idle", config |-> GetA, ctx |-> Undefined,
   error |-> Response(0), retry |-> FALSE, delay |-> 0, wake |-> 0,
   cancelled |-> FALSE, asked |-> 0,
   sent |-> 0, fails |-> 0, answer |-> 0, hooks |-> <<>>,
   result |-> Response(0)]

\* The configurations explored: a base configuration and its variations in
\* one setting at a time.
BaseConfig ==
  [maxRetries |-> 1,
   retryCondition |-> "default",
   asyncHooks |-> FALSE,
   backoffStrategy |-> "linear",
   customBackoff |-> 0,
   failureThreshold |-> 2,
   resetTimeout |-> BackoffUnitMs,
   halfOpenMaxRequests |-> 1,
   rateLimit |-> FALSE,
   maxRequests |-> 1,
   windowMs |-> 2 * BackoffUnitMs,
   contextThreshold |-> MaxCapacity,
   contextMaxAge |-> 2 * BackoffUnitMs,
   requestCategories |-> <<>>,
   customErrorHandler |-> "",
   dryRun |-> FALSE]

\* the construction of the client at clock time t
ClientInitAt(configs, t) ==
  /\ cfg \in configs
  /\ now = t
  /\ cb = NewCircuitBreaker(t)
  /\ last = [op |-> "new", ret |-> TRUE, notified |-> <<>>, seq |-> 0]
  /\ gh = NewHistory
  /\ rl = NewTokenBucketRateLimiter(cfg.maxRequests, cfg.windowMs, t)
  /\ lru = NewLRUCache(cfg.contextThreshold)
  /\ heap = [i \in CtxIds |-> NullCtx]
  /\ reqs = [r \in Reqs |-> NewRequest]

ClientInit(configs) == ClientInitAt(configs, 0)

\* The clients of the concurrent runs.  The clock runs to MaxTime units, so
\* the later a client is constructed the shorter its run: the base client
\* and the rate-limited one are followed for two units, the others for one.
ClientConfigs ==
  {BaseConfig, [BaseConfig EXCEPT !.rateLimit = TRUE]}

LateConfigs ==
  {[BaseConfig EXCEPT !.maxRetries = m] : m \in {0, MaxRetries}}
    \cup {[BaseConfig EXCEPT !.asyncHooks = TRUE]}
    \cup {[BaseConfig EXCEPT !.failureThreshold = 1, !.resetTimeout = 2 * BackoffUnitMs,
                             !.customErrorHandler = h] : h \in {"", "wrap"}}
    \cup {[BaseConfig EXCEPT !.rateLimit = TRUE, !.customErrorHandler = "wrap"]}
    \cup {[BaseConfig EXCEPT !.retryCondition = "throws"]}
    \cup {[BaseConfig EXCEPT !.contextThreshold = k] : k \in 0..(MaxCapacity - 1)}

CBIdle == UNCHANGED <<cb, last, gh>>

Settle(r, result, answer) ==
  [reqs EXCEPT ![r].pc = "done", ![r].result = result, ![r].ctx = Undefined,
               ![r].answer = answer]

\* cleanupRetryContexts: delete every context older than contextMaxAge
RECURSIVE DeleteAll(_, _)
DeleteAll(c, keys) ==
  IF keys = {} THEN c
  ELSE LET k == CHOOSE x \in keys : TRUE IN DeleteAll(LRUDelete(c, k), keys \ {k})

cleanupRetryContexts(c, h, t, conf) ==
  LET expiredKeys == {k \in DOMAIN c.cache : t - h[c.cache[k]].startTime > conf.contextMaxAge}
  IN DeleteAll(c, expiredKeys)

\* request(config) or the re-issue at the end of performRetry: the request
\* interceptor starts and asks the circuit breaker
Admit(r, config) ==
  LET out == beforeRequest(cb, now, cfg)
  IN /\ CBCall("beforeRequest", out)
     /\ reqs' = IF out.ret
                  THEN [reqs EXCEPT ![r].pc = "rate", ![r].config = config]
                  ELSE [reqs EXCEPT ![r].pc = "done", ![r].config = config,
                                    ![r].result = handleError(CircuitOpenError, cfg)]
     /\ UNCHANGED <<cfg, now, rl, lru, heap>>

\* the response a dry run resolves with
DryRunResponse == Response(200)

\* variant of request that does not look at dryRun
requestLive(r, config) == Admit(r, config)

\* request(config); get, post and the other method wrappers call it
request(r, config) ==
  IF cfg.dryRun
    THEN /\ reqs' = [reqs EXCEPT ![r].pc = "done", ![r].config = config,
                                 ![r].result = DryRunResponse]
         /\ UNCHANGED <<cfg, now, cb, last, gh, rl, lru, heap>>
    ELSE Admit(r, config)

\* the caller issues request r with the given configuration; the requests
\* are issued in the order of their numbers
Issue(r, config) ==
  /\ reqs[r].pc = "idle"
  /\ \A q \in Reqs : q < r => reqs[q].pc # "idle"
  /\ request(r, config)

\* handleRequestInterception from the context bookkeeping on: the context is
\* stored under the request's key and the expired contexts are swept.  The
\* interceptor returns the config; the dispatch is a continuation of its own.
StoreContext(r, limiter) ==
  LET config    == reqs[r].config
      requestId == generateRequestId(config)
      id        == FreshCtx(lru, reqs)
      context   == [retryCount |-> 0, startTime |-> now, attempts |-> <<>>,
                    requestConfig |-> r,
                    category |-> determineRequestCategory(config, cfg)]
      h1        == [heap EXCEPT ![id] = context]
      c1        == cleanupRetryContexts(LRUSet(lru, requestId, id), h1, now, cfg)
      rs1       == [reqs EXCEPT ![r].pc = "dispatch"]
  IN /\ rl' = limiter
     /\ lru' = c1
     /\ reqs' = rs1
     /\ heap' = Collect(h1, c1, rs1)
     /\ CBIdle
     /\ UNCHANGED <<cfg, now>>

\* the intercepted config is handed to the transport, which serialises the
\* body.  A token that is triggered already makes the dispatch throw its
\* reason instead (Cancelled).
Dispatch(r) ==
  /\ reqs[r].pc = "dispatch"
  /\ ~reqs[r].cancelled
  /\ reqs' = [reqs EXCEPT ![r].pc = "sent",
                          ![r].config.data = TransformRequest(@),
                          ![r].sent = Min(MaxSent, @ + 1)]
  /\ CBIdle
  /\ UNCHANGED <<cfg, now, rl, lru, heap>>

\* the rate limiter check of handleRequestInterception; without a limiter the
\* interceptor runs on to the end
RateCheck(r) ==
  /\ reqs[r].pc = "rate"
  /\ IF cfg.rateLimit
       THEN \E out \in {tryAcquire(rl, now)} :
               IF out.ret
                 THEN /\ rl' = out.rl
                      /\ reqs' = [reqs EXCEPT ![r].pc = "track"]
                      /\ CBIdle
                      /\ UNCHANGED <<cfg, now, lru, heap>>
                 ELSE /\ rl' = out.rl
                      /\ reqs' = Settle(r, handleError(LibError("RateLimitError",
                                                                "Rate limit exceeded"), cfg),
                                          reqs[r].answer)
                      /\ CBIdle
                      /\ UNCHANGED <<cfg, now, lru, heap>>
       ELSE StoreContext(r, rl)

Track(r) ==
  /\ reqs[r].pc = "track"
  /\ StoreContext(r, rl)

\* the retry delay is over: performRetry re-issues the request
Reissue(r) ==
  /\ ~Busy
  /\ reqs[r].pc = "delay"
  /\ now >= reqs[r].wake
  /\ Admit(r, reqs[r].config)

\* the transport answers with a response: handleSuccessResponse
Succeed(r) ==
  /\ ~Busy
  /\ reqs[r].pc = "sent"
  /\ ~reqs[r].cancelled
  /\ LET requestId == generateRequestId(reqs[r].config)
         got       == LRUGet(lru, requestId)
         c1        == IF got.ret # Undefined THEN LRUDelete(got.lru, requestId) ELSE got.lru
         rs1       == Settle(r, Response(200), 200)
     IN /\ CBCall("recordSuccess", recordSuccess(cb, now, cfg))
        /\ lru' = c1
        /\ reqs' = rs1
        /\ heap' = Collect(heap, c1, rs1)
  /\ UNCHANGED <<cfg, now, rl>>

\* the transport answers with an error: handleErrorResponse up to the await
\* of shouldRetry
Fail(r, status) ==
  /\ ~Busy
  /\ reqs[r].pc = "sent"
  /\ ~reqs[r].cancelled
  /\ LET error     == AxiosErrorAt(status, "", NoHeader, reqs[r].config.url)
         answered  == [reqs EXCEPT ![r].answer = status,
                                   ![r].fails = IF status = RetryableStatus
                                                  THEN Min(MaxSent, @ + 1) ELSE @]
         requestId == generateRequestId(reqs[r].config)
         got       == LRUGet(lru, requestId)
         id        == got.ret
         h1        == [heap EXCEPT ![id].attempts =
                         Append(@, [timestamp |-> now, error |-> error.status,
                                    duration |-> now - heap[id].startTime])]
     IN IF id = Undefined
          THEN /\ reqs' = [answered EXCEPT ![r].pc = "done",
                                            ![r].result = handleError(error, cfg)]
               /\ UNCHANGED <<lru, heap>>
          ELSE /\ lru' = got.lru
               /\ heap' = h1
               /\ reqs' = [answered EXCEPT ![r].pc = "await", ![r].ctx = id,
                                       ![r].error = error,
                                       ![r].asked = RetryConditionCalls(error, h1[id], cfg),
                                       ![r].retry = shouldRetry(error, h1[id], cfg)]
  /\ CBIdle
  /\ UNCHANGED <<cfg, now, rl>>

\* shouldRetry gave true: performRetry up to the await of onRetry
PerformRetry(r) ==
  /\ reqs[r].pc = "await"
  /\ reqs[r].retry
  /\ LET id == reqs[r].ctx
         h1 == [heap EXCEPT ![id].retryCount = @ + 1]
     IN /\ heap' = h1
        /\ reqs' = [reqs EXCEPT ![r].pc = "hook",
                                ![r].delay = calculateRetryDelay(h1[id], reqs[r].error, cfg),
                                ![r].hooks = IF Len(@) < MaxLog
                                               THEN Append(@, h1[id].retryCount) ELSE @]
  /\ CBIdle
  /\ UNCHANGED <<cfg, now, rl, lru>>

\* onRetry returned: performRetry checks the cancel token and starts the
\* delay timer
StartDelay(r) ==
  /\ reqs[r].pc = "hook"
  /\ IF reqs[r].cancelled
       THEN LET c1  == LRUDelete(lru, generateRequestId(reqs[r].config))
                rs1 == Settle(r, CancellationError("Request was cancelled during retry"),
                              reqs[r].answer)
            IN /\ lru' = c1
               /\ reqs' = rs1
               /\ heap' = Collect(heap, c1, rs1)
       ELSE LET rs1 == [reqs EXCEPT ![r].pc = "delay", ![r].wake = now + reqs[r].delay,
                                    ![r].ctx = Undefined]
            IN /\ lru' = lru
               /\ reqs' = rs1
               /\ heap' = Collect(heap, lru, rs1)
  /\ CBIdle
  /\ UNCHANGED <<cfg, now, rl>>

\* the number of cancel tokens the caller triggers in one run
MaxCancels == 1

\* the caller triggers the cancel token of request r at any time before the
\* request settles.  During the delay the token's promise rejects the wait:
\* the timer is cleared and performRetry throws.  Before the delay only
\* cancelToken.reason is set, for performRetry to find.  With the attempt at
\* the transport the transport aborts it, and with the token triggered before
\* the request interceptor has finished the dispatch throws instead of calling
\* the transport (Cancelled).
Cancel(r) ==
  /\ reqs[r].pc \in {"idle", "rate", "track", "dispatch", "sent", "await", "hook", "delay"}
  /\ ~reqs[r].cancelled
  /\ Cardinality({q \in DOMAIN reqs : reqs[q].cancelled}) < MaxCancels
  /\ reqs' = IF reqs[r].pc = "delay"
               THEN [Settle(r, CancellationError("Request was cancelled during retry delay"),
                            reqs[r].answer) EXCEPT ![r].cancelled = TRUE]
               ELSE [reqs EXCEPT ![r].cancelled = TRUE]
  /\ CBIdle
  /\ UNCHANGED <<cfg, now, rl, lru, heap>>

\* the attempt is rejected with the token's reason: handleErrorResponse,
\* the axios.isCancel branch.  The reason of a cancel token is a CanceledError
\* made from the caller's message alone, so it has no config and the context
\* is not removed.
Cancelled(r) ==
  /\ reqs[r].pc \in {"dispatch", "sent"}
  /\ reqs[r].cancelled
  /\ LET error == [name |-> "CanceledError", hasConfig |-> FALSE]
         c1  == IF error.hasConfig
                  THEN LRUDelete(lru, generateRequestId(reqs[r].config))
                  ELSE lru
         rs1 == Settle(r, CancellationError("Request was cancelled"), reqs[r].answer)
     IN /\ lru' = c1
        /\ reqs' = rs1
        /\ heap' = Collect(heap, c1, rs1)
  /\ CBIdle
  /\ UNCHANGED <<cfg, now, rl>>

\* destroy(): the caller clears the retry contexts.  The caller may call it
\* at any point, also from a continuation of its own that runs between two
\* continuations of the client.
Destroy ==
  /\ lru' = LRUClear(lru)
  /\ heap' = Collect(heap, LRUClear(lru), reqs)
  /\ CBIdle
  /\ UNCHANGED <<cfg, now, rl, reqs>>

\* shouldRetry gave false: the rest of handleErrorResponse
GiveUp(r) ==
  /\ reqs[r].pc = "await"
  /\ ~reqs[r].retry
  /\ LET c1  == LRUDelete(lru, generateRequestId(reqs[r].config))
         rs1 == Settle(r, handleError(reqs[r].error, cfg), reqs[r].answer)
     IN /\ CBCall("recordFailure", recordFailure(cb, now, cfg))
        /\ lru' = c1
        /\ reqs' = rs1
        /\ heap' = Collect(heap, c1, rs1)
  /\ UNCHANGED <<cfg, now, rl>>

\* everything that happens to request r once the caller has issued it
Proceed(r) ==
  \/ Reissue(r) \/ RateCheck(r) \/ Track(r) \/ Dispatch(r) \/ Succeed(r)
  \/ (\E status \in Answers \ {200} : Fail(r, status))
  \/ PerformRetry(r) \/ StartDelay(r) \/ GiveUp(r)

Step(r) == (\E config \in RequestConfigs : Issue(r, config)) \/ Proceed(r)

\* Concurrent requests: the caller issues requests without waiting for the
\* earlier ones, triggers cancel tokens and calls destroy() at any time.
Init ==
  \/ ClientInitAt(ClientConfigs, (MaxTime - 2) * BackoffUnitMs)
  \/ ClientInitAt(LateConfigs, (MaxTime - 1) * BackoffUnitMs)

\* the clock time at which the client of the run was constructed
ConstructedAt ==
  IF cfg \in ClientConfigs THEN (MaxTime - 2) * BackoffUnitMs
  ELSE (MaxTime - 1) * BackoffUnitMs

Next == (\E r \in Reqs : Step(r) \/ Cancel(r) \/ Cancelled(r)) \/ Destroy \/ Tick

Spec == Init /\ [][Next]_vars

\* One GET request on a client whose custom backoff returns 0, so that no
\* retry waits for the clock.  The event loop runs every pending continuation
\* and timer and the transport answers every attempt: weak fairness of the
\* request's steps.
SoloConfigs ==
  {[BaseConfig EXCEPT !.backoffStrategy = "custom"],
   [BaseConfig EXCEPT !.backoffStrategy = "custom", !.rateLimit = TRUE]}

SoloInit == ClientInit(SoloConfigs)

SoloStep == Issue(1, GetA) \/ Proceed(1)

SoloNext == SoloStep \/ Destroy \/ Tick

SoloSpec == SoloInit /\ [][SoloNext]_vars /\ WF_vars(SoloStep)

\* Requests issued one after the other: the caller awaits each request before
\* it issues the next.  The settings are varied one feature at a time, and the
\* clock runs for MaxTime units.
SeqConfigs ==
  {[BaseConfig EXCEPT !.failureThreshold = 1, !.customErrorHandler = h] : h \in {"", "wrap", "log"}}
    \cup {[BaseConfig EXCEPT !.rateLimit = TRUE]}
    \cup {[BaseConfig EXCEPT !.rateLimit = TRUE, !.failureThreshold = 1]}
    \cup {[BaseConfig EXCEPT !.retryCondition = "throws"]}
    \cup {[BaseConfig EXCEPT !.maxRetries = 0]}
    \cup {[BaseConfig EXCEPT !.dryRun = TRUE, !.rateLimit = TRUE, !.failureThreshold = 1]}

SeqInit == ClientInit(SeqConfigs)

SeqIssue(r, config) ==
  /\ \A q \in Reqs : q < r => reqs[q].pc = "done"
  /\ Issue(r, config)

SeqStep(r) == (\E config \in RequestConfigs : SeqIssue(r, config)) \/ Proceed(r)

SeqNext == (\E r \in Reqs : SeqStep(r) \/ Cancel(r) \/ Cancelled(r)) \/ Destroy \/ Tick

SeqSpec == SeqInit /\ [][SeqNext]_vars

\* Clients with request categories; the requests are issued one after the
\* other.
Settings(maxRetries, retryCondition, backoffStrategy, customBackoff) ==
  [maxRetries |-> maxRetries, retryCondition |-> retryCondition,
   backoffStrategy |-> backoffStrategy, customBackoff |-> customBackoff]

Category(name, matcher, settings) ==
  [name |-> name, matcher |-> matcher, settings |-> settings]

CategoryLists ==
  {<<Category("slow", {"a"}, Settings(0, "", "", Unset)),
     Category("all", {"a", "b"}, Settings(Unset, "", "exponential", Unset))>>,
   <<Category("all", {"a", "b"}, Settings(Unset, "never", "", Unset)),
     Category("slow", {"a"}, Settings(0, "", "", Unset))>>,
   <<Category("2", {"a", "b"}, Settings(Unset, "never", "", Unset)),
     Category("1", {"a"}, Settings(Unset, "", "custom", BackoffUnitMs))>>,
   <<Category("", {"a"}, Settings(0, "", "", Unset))>>,
   <<Category("plain", {"b"}, NoSettings)>>}

CatConfigs ==
  {[BaseConfig EXCEPT !.requestCategories = list] : list \in CategoryLists}
    \cup {[BaseConfig EXCEPT !.rateLimit = TRUE,
                             !.requestCategories =
                               <<Category("all", {"a", "b"},
                                          Settings(Unset, "", "fibonacci", Unset))>>]}

CatInit == ClientInit(CatConfigs)

CatNext == (\E r \in Reqs : SeqStep(r) \/ Cancel(r) \/ Cancelled(r)) \/ Destroy \/ Tick

CatSpec == CatInit /\ [][CatNext]_vars

\* ------------------------------------------------------------------------
\* The retry delays: performRetry counts the retry and computes its delay
\* ------------------------------------------------------------------------
BackoffStrategies == {"exponential", "linear", "fibonacci", "custom"}

\* the failures a delay is computed for: a server error, and 429 without and
\* with a Retry-After header
DelayErrors ==
  {AxiosError(RetryableStatus, ""), AxiosError(429, "")}
    \cup {AxiosErrorWith(429, "", s) : s \in 1..MaxRetryAfter}

NewDelay(error) == [error |-> error, delay |-> Unset]

InitDelay ==
  /\ \E st \in BackoffStrategies, perRetry \in {0, BackoffUnitMs} :
       cfg = [backoffStrategy |-> st, customBackoff |-> perRetry, requestCategories |-> <<>>]
  /\ now = 0
  /\ cb = NewCircuitBreaker(0)
  /\ last = [op |-> "new", ret |-> TRUE, notified |-> <<>>, seq |-> 0]
  /\ gh = NewHistory
  /\ rl = NewTokenBucketRateLimiter(1, BackoffUnitMs, 0)
  /\ lru = NewLRUCache(1)
  /\ heap = <<[NullCtx EXCEPT !.requestConfig = 1]>>
  /\ \E error \in DelayErrors : reqs = <<NewDelay(error)>>

\* context.retryCount++; const delay = this.calculateRetryDelay(context, error)
CountAndDelay ==
  /\ heap[1].retryCount < MaxRetryCount
  /\ heap' = [heap EXCEPT ![1].retryCount = @ + 1]
  /\ reqs' = [reqs EXCEPT ![1].delay = calculateRetryDelay(heap'[1], reqs[1].error, cfg)]
  /\ UNCHANGED <<cfg, now, cb, last, gh, rl, lru>>

SpecDelay == InitDelay /\ [][CountAndDelay]_vars

\* ------------------------------------------------------------------------
\* The classification of errors: handleError applied to one error
\* ------------------------------------------------------------------------
ClassifyStatuses == {0, 302, 400, 401, 403, 404, 422, 429, 499, RetryableStatus, 503}

ClassifyCodes ==
  {"", "ECONNABORTED", "ETIMEDOUT", "ECONNREFUSED", "ENOTFOUND", "CERT_HAS_EXPIRED",
   "ERR_NETWORK"}

\* the codes axios gives a failure that has a response
ResponseCodes == {"", "ERR_BAD_REQUEST", "ERR_BAD_RESPONSE"}

TaxonomyUnchanged == {"RateLimitError", "CancellationError", "TimeoutError", "ValidationError"}

\* what handleError is given: the failures of the transport, and errors that
\* are of the library's kinds already
ClassifyErrors ==
  {AxiosErrorAt(0, code, NoHeader, url) :
     code \in ClassifyCodes, url \in {"", "a", "https://example.com/a"}}
    \cup {AxiosErrorAt(status, code, retryAfter, url) :
             status \in ClassifyStatuses \ {0}, code \in ResponseCodes,
             retryAfter \in {NoHeader, 1}, url \in {"", "a", "https://example.com/a"}}
    \cup {AxiosErrorDetails(status, "[\"name is required\"]") : status \in {400, 422}}
    \cup {LibError(name, "raised by the library") : name \in TaxonomyUnchanged}

ErrorHandlers ==
  {"", "wrap", "log", "same", "rateLimit", "server", "serverTimeout", "generic",
   "genericConnection"}

NewClassify(error) == [error |-> error, result |-> NotAnError]

InitClassify ==
  /\ \E handler \in ErrorHandlers : cfg = [customErrorHandler |-> handler]
  /\ now = 0
  /\ cb = NewCircuitBreaker(0)
  /\ last = [op |-> "new", ret |-> TRUE, notified |-> <<>>, seq |-> 0]
  /\ gh = NewHistory
  /\ rl = NewTokenBucketRateLimiter(1, BackoffUnitMs, 0)
  /\ lru = NewLRUCache(1)
  /\ heap = <<>>
  /\ \E error \in ClassifyErrors : reqs = <<NewClassify(error)>>

\* Promise.reject(this.handleError(error))
Classify ==
  /\ reqs[1].result = NotAnError
  /\ reqs' = [reqs EXCEPT ![1].result = handleError(reqs[1].error, cfg)]
  /\ last' = [last EXCEPT !.op = "handleError", !.seq = 1]
  /\ UNCHANGED <<cfg, now, cb, gh, rl, lru, heap>>

SpecClassify == InitClassify /\ [][Classify]_vars

\* ------------------------------------------------------------------------
\* The cache used directly (the class is exported by src/index.ts)
\* ------------------------------------------------------------------------
\* The keys and the values of the calls: V may include undefined.
CacheKeys == {"a", "b", "c"}
CacheValues == {Undefined} \cup CtxIds

InitLRU ==
  /\ \E capacity \in 0..MaxCapacity : /\ cfg = [capacity |-> capacity]
                                      /\ lru = NewLRUCache(capacity)
  /\ now = 0
  /\ cb = NewCircuitBreaker(0)
  /\ last = [op |-> "new", key |-> "", value |-> Undefined, ret |-> Undefined, seq |-> 0]
  /\ gh = NewHistory
  /\ rl = NewTokenBucketRateLimiter(1, BackoffUnitMs, 0)
  /\ heap = <<>>
  /\ reqs = <<>>

LRUCall(op, key, value, ret, cache) ==
  /\ lru' = cache
  /\ last' = [op |-> op, key |-> key, value |-> value, ret |-> ret, seq |-> 1 - last.seq]

CallGet(key) ==
  /\ LET out == LRUGet(lru, key)
     IN LRUCall("get", key, Undefined, out.ret, out.lru)
  /\ UNCHANGED <<cfg, now, cb, gh, rl, heap, reqs>>

CallSet(key, value) ==
  /\ LRUCall("set", key, value, Undefined, LRUSet(lru, key, value))
  /\ UNCHANGED <<cfg, now, cb, gh, rl, heap, reqs>>

CallDelete(key) ==
  /\ LRUCall("delete", key, Undefined, Has(lru, key), LRUDelete(lru, key))
  /\ UNCHANGED <<cfg, now, cb, gh, rl, heap, reqs>>

CallClear ==
  /\ LRUCall("clear", "", Undefined, Undefined, LRUClear(lru))
  /\ UNCHANGED <<cfg, now, cb, gh, rl, heap, reqs>>

NextLRU ==
  \/ \E key \in CacheKeys : CallGet(key) \/ CallDelete(key)
  \/ \E key \in CacheKeys, value \in CacheValues : CallSet(key, value)
  \/ CallClear

SpecLRU == InitLRU /\ [][NextLRU]_vars

\* ------------------------------------------------------------------------
\* The cache with its linked list (lru-cache.ts, the private fields)
\* ------------------------------------------------------------------------
\* The cache as the class stores it: the Map of values (cache), the Map of
\* nodes (nodes, a key to its Node), the Node objects (store, a reference to
\* [key, prev, next]) and the references head and tail.  A reference is a
\* positive number; null is NullNode.
NullNode == 0

Node(key) == [key |-> key, prev |-> NullNode, next |-> NullNode]

NewLinkedCache(capacity) ==
  [capacity |-> Max(1, capacity), cache |-> <<>>, nodes |-> <<>>,
   store |-> <<>>, head |-> NullNode, tail |-> NullNode]

\* removeNode(node), node being the reference n
LinkedRemoveNode(c, n) ==
  LET c1 == IF c.store[n].prev # NullNode
              THEN [c EXCEPT !.store[c.store[n].prev].next = c.store[n].next]
              ELSE [c EXCEPT !.head = c.store[n].next]
  IN IF c1.store[n].next # NullNode
       THEN [c1 EXCEPT !.store[c1.store[n].next].prev = c1.store[n].prev]
       ELSE [c1 EXCEPT !.tail = c1.store[n].prev]

\* addNodeToFront(node)
LinkedAddNodeToFront(c, n) ==
  LET c1 == [c EXCEPT !.store[n].next = c.head, !.store[n].prev = NullNode]
      c2 == IF c1.head # NullNode THEN [c1 EXCEPT !.store[c1.head].prev = n] ELSE c1
      c3 == [c2 EXCEPT !.head = n]
  IN IF c3.tail = NullNode THEN [c3 EXCEPT !.tail = n] ELSE c3

LinkedMarkAsUsed(c, key) ==
  IF key \in DOMAIN c.nodes
    THEN LinkedAddNodeToFront(LinkedRemoveNode(c, c.nodes[key]), c.nodes[key])
    ELSE c

LinkedEvictLRU(c) ==
  IF c.tail # NullNode
    THEN LET key == c.store[c.tail].key
             removed == LinkedRemoveNode(c, c.tail)
         IN [removed EXCEPT !.nodes = [k \in DOMAIN @ \ {key} |-> @[k]],
                            !.cache = [k \in DOMAIN @ \ {key} |-> @[k]]]
    ELSE c

\* new Node(key): a reference no object has yet
LinkedAddToFront(c, key) ==
  LET n == CHOOSE i \in 1..(Cardinality(DOMAIN c.store) + 1) : i \notin DOMAIN c.store
  IN LinkedAddNodeToFront([c EXCEPT !.store = (n :> Node(key)) @@ @,
                                    !.nodes = (key :> n) @@ @], n)

LinkedGet(c, key) ==
  LET value == IF key \in DOMAIN c.cache THEN c.cache[key] ELSE Undefined
  IN [lru |-> IF value # Undefined THEN LinkedMarkAsUsed(c, key) ELSE c, ret |-> value]

LinkedSet(c, key, value) ==
  IF key \in DOMAIN c.cache
    THEN LinkedMarkAsUsed([c EXCEPT !.cache[key] = value], key)
    ELSE LET room == IF Cardinality(DOMAIN c.cache) >= c.capacity THEN LinkedEvictLRU(c) ELSE c
         IN LinkedAddToFront([room EXCEPT !.cache = (key :> value) @@ @], key)

LinkedDelete(c, key) ==
  IF key \notin DOMAIN c.cache
    THEN c
    ELSE LET unlinked == IF key \in DOMAIN c.nodes
                           THEN [LinkedRemoveNode(c, c.nodes[key])
                                   EXCEPT !.nodes = [k \in DOMAIN @ \ {key} |-> @[k]]]
                           ELSE c
         IN [unlinked EXCEPT !.cache = [k \in DOMAIN @ \ {key} |-> @[k]]]

LinkedClear(c) ==
  [c EXCEPT !.cache = <<>>, !.nodes = <<>>, !.head = NullNode, !.tail = NullNode]

\* The objects a call can still get at: those that head, tail or the node
\* map refer to, and those that these refer to in turn.  The others are
\* garbage and are dropped.
RECURSIVE ReachableFrom(_, _)
ReachableFrom(c, ns) ==
  LET more == {m \in DOMAIN c.store :
                 \E n \in ns \cap DOMAIN c.store : m \in {c.store[n].prev, c.store[n].next}}
  IN IF more \subseteq ns THEN ns ELSE ReachableFrom(c, ns \cup more)

Collected(c) ==
  LET live == ReachableFrom(c, ({c.head, c.tail} \cup {c.nodes[k] : k \in DOMAIN c.nodes})
                                  \cap DOMAIN c.store)
  IN [c EXCEPT !.store = [n \in live |-> @[n]]]

\* The order of use kept beside the cache: the keys present, the one used
\* last first.  A get of a present key and a set use the key.
UsedFirst(order, key) == <<key>> \o SelectSeq(order, LAMBDA k : k # key)

OrderAfter(order, op, key, after) ==
  LET present == DOMAIN after.cache
      used == IF op \in {"get", "set"} /\ key \in present THEN UsedFirst(order, key) ELSE order
  IN SelectSeq(used, LAMBDA k : k \in present)

\* capacities up to LinkedCapacity, so that a node with a node on either side
\* is removed
LinkedCapacity == MaxCapacity + 1

InitLinked ==
  /\ \E capacity \in 0..LinkedCapacity : /\ cfg = [capacity |-> capacity]
                                         /\ lru = NewLinkedCache(capacity)
  /\ now = 0
  /\ cb = NewCircuitBreaker(0)
  /\ last = [op |-> "new", key |-> "", value |-> Undefined, ret |-> Undefined, seq |-> 0]
  /\ gh = <<>>
  /\ rl = NewTokenBucketRateLimiter(1, BackoffUnitMs, 0)
  /\ heap = <<>>
  /\ reqs = <<>>

LinkedCall(op, key, value, ret, cache) ==
  /\ lru' = Collected(cache)
  /\ last' = [op |-> op, key |-> key, value |-> value, ret |-> ret, seq |-> 1 - last.seq]
  /\ gh' = OrderAfter(gh, op, key, cache)

LinkedCallGet(key) ==
  /\ LET out == LinkedGet(lru, key)
     IN LinkedCall("get", key, Undefined, out.ret, out.lru)
  /\ UNCHANGED <<cfg, now, cb, rl, heap, reqs>>

LinkedCallSet(key, value) ==
  /\ LinkedCall("set", key, value, Undefined, LinkedSet(lru, key, value))
  /\ UNCHANGED <<cfg, now, cb, rl, heap, reqs>>

LinkedCallDelete(key) ==
  /\ LinkedCall("delete", key, Undefined, key \in DOMAIN lru.cache, LinkedDelete(lru, key))
  /\ UNCHANGED <<cfg, now, cb, rl, heap, reqs>>

LinkedCallClear ==
  /\ LinkedCall("clear", "", Undefined, Undefined, LinkedClear(lru))
  /\ UNCHANGED <<cfg, now, cb, rl, heap, reqs>>

NextLinked ==
  \/ \E key \in CacheKeys : LinkedCallGet(key) \/ LinkedCallDelete(key)
  \/ \E key \in CacheKeys, value \in CacheValues : LinkedCallSet(key, value)
  \/ LinkedCallClear

SpecLinked == InitLinked /\ [][NextLinked]_vars

\* ------------------------------------------------------------------------
\* Properties of the retry pipeline
\* ------------------------------------------------------------------------
\* the request was turned away by the breaker or the limiter at admission
Denied(r) ==
  reqs[r].result \in {handleError(CircuitOpenError, cfg),
                      handleError(LibError("RateLimitError", "Rate limit exceeded"), cfg)}

\* every attempt of request r so far was answered with a retryable failure
AllFailed(r) == reqs[r].sent >= 1 /\ reqs[r].fails = reqs[r].sent

\* the cache holds a context created for request r
Cached(r) == \E k \in DOMAIN lru.cache : heap[lru.cache[k]].requestConfig = r

\* C1: a request whose every attempt fails retryably is sent at most
\* 1 + maxRetries times; when it settles (not turned away at admission) it
\* was sent exactly 1 + maxRetries times with maxRetries retries, it rejects
\* with the classification of the failure, and the cache holds no context of
\* it.
C1_ExhaustsBudget ==
  \A r \in Reqs :
    AllFailed(r) =>
      /\ reqs[r].sent <= 1 + cfg.maxRetries
      /\ reqs[r].pc = "done" /\ ~Denied(r) =>
           /\ reqs[r].sent = 1 + cfg.maxRetries
           /\ Len(reqs[r].hooks) = cfg.maxRetries
           /\ reqs[r].result = handleError(AxiosError(RetryableStatus, ""), cfg)
           /\ ~Cached(r)

\* C2: every request that was issued eventually settles.
C2_EventuallySettles ==
  \A r \in Reqs : (reqs[r].pc # "idle") ~> (reqs[r].pc = "done")

\* C3: with n <= maxRetries retryable failures followed by a response or a
\* failure that is not retryable, the caller gets the outcome of attempt
\* n + 1 after exactly n retries; so no request settles on a retryable
\* failure with maxRetries or fewer failures behind it (unless it was turned
\* away at admission).
C3_RetriesUntilOutcome ==
  \A r \in Reqs :
    reqs[r].pc = "done" /\ reqs[r].sent >= 1 /\ ~Denied(r) =>
      IF reqs[r].answer = RetryableStatus
        THEN reqs[r].fails > cfg.maxRetries
        ELSE reqs[r].fails <= cfg.maxRetries =>
               /\ reqs[r].sent = reqs[r].fails + 1
               /\ Len(reqs[r].hooks) = reqs[r].fails
               /\ reqs[r].result = IF reqs[r].answer = 200
                                     THEN Response(200)
                                     ELSE handleError(AxiosErrorAt(reqs[r].answer, "", NoHeader,
                                                                   reqs[r].config.url), cfg)

\* C4: every context in the cache has 0 <= retryCount <= its effective
\* maxRetries.
C4_RetryCountBounded ==
  \A k \in DOMAIN lru.cache :
    LET context == heap[lru.cache[k]]
    IN context.retryCount >= 0 /\ context.retryCount <= EffectiveMaxRetries(context, cfg)

\* C5: the k-th call of onRetry within a request sees retryCount = k.
C5_HookSeesRetryNumber ==
  \A r \in Reqs : \A k \in 1..Len(reqs[r].hooks) : reqs[r].hooks[k] = k

\* C7: while the breaker is OPEN and less than resetTimeout has passed since
\* it opened, every request that arrives (first issue or re-issue of a retry;
\* the step is not the triggering of its cancel token) is rejected with the
\* circuit-open failure and is not handed to the transport.
C7_OpenRejects ==
  [][\A r \in Reqs :
       /\ cb.state = "OPEN" /\ now - gh.openedAt < cfg.resetTimeout
       /\ reqs[r].pc \in {"idle", "delay"} /\ reqs'[r].pc # reqs[r].pc
       /\ reqs'[r].cancelled = reqs[r].cancelled
       => /\ reqs'[r].pc = "done"
          /\ reqs'[r].result = LibError("Error", "Circuit breaker is open")
          /\ reqs'[r].sent = reqs[r].sent
          /\ last'.ret = FALSE /\ cb'.state = "OPEN"]_vars

\* ------------------------------------------------------------------------
\* Properties of the circuit breaker
\* ------------------------------------------------------------------------
\* the step is a call of the breaker method op
DidCall(op) == last'.seq # last.seq /\ last'.op = op

\* C6: from CLOSED the breaker opens exactly when the number of consecutive
\* recorded failures (no success in between) reaches failureThreshold; with
\* fewer it stays CLOSED and admits every request; a recorded success
\* restarts the count from 0.
C6_OpensAtThreshold ==
  /\ [](cb.state = "CLOSED" => gh.consec < cfg.failureThreshold /\ cb.failures = gh.consec)
  /\ [][cb.state = "CLOSED" =>
         /\ DidCall("recordFailure") =>
              (cb'.state = "OPEN" <=> gh'.consec = cfg.failureThreshold)
         /\ DidCall("recordFailure") /\ gh'.consec < cfg.failureThreshold =>
              cb'.state = "CLOSED"
         /\ DidCall("beforeRequest") => last'.ret = TRUE /\ cb'.state = "CLOSED"
         /\ DidCall("recordSuccess") => cb'.failures = 0 /\ cb'.state = "CLOSED"
         /\ cb'.state # "CLOSED" => DidCall("recordFailure")]_cbvars

C6_Witness ==
  /\ cb.state = "OPEN" /\ last.op = "recordFailure"
  /\ cfg.failureThreshold >= 2 /\ gh.consec = cfg.failureThreshold
  /\ gh.openedAt = now

\* C8: OPEN with at least resetTimeout elapsed since the last transition:
\* the next beforeRequest() moves to HALF_OPEN with the trial request and
\* success counters at 0, and admits the request.
C8_HalfOpenAfterTimeout ==
  [][cb.state = "OPEN" /\ now - cb.lastStateChange >= cfg.resetTimeout
       /\ DidCall("beforeRequest") =>
         /\ cb'.state = "HALF_OPEN"
         /\ cb'.requestCount = 0 /\ cb'.successCount = 0
         /\ last'.ret = TRUE
         /\ last'.notified = <<"HALF_OPEN">>]_cbvars

C8_Witness ==
  /\ cb.state = "HALF_OPEN" /\ last.op = "beforeRequest" /\ last.ret = TRUE
  /\ cb.lastStateChange = now /\ now - gh.openedAt = cfg.resetTimeout
  /\ cb.requestCount = 0 /\ cb.successCount = 0

\* C9: in HALF_OPEN the breaker closes exactly when the successes recorded
\* since it entered HALF_OPEN reach halfOpenMaxRequests, resetting the
\* failure and trial counters; with fewer it stays HALF_OPEN.
C9_ClosesAfterTrials ==
  /\ [](cb.state = "HALF_OPEN" => gh.hoSucc < cfg.halfOpenMaxRequests)
  /\ [][cb.state = "HALF_OPEN" =>
         /\ DidCall("recordSuccess") =>
              IF gh'.hoSucc >= cfg.halfOpenMaxRequests
                THEN /\ cb'.state = "CLOSED"
                     /\ cb'.failures = 0
                     /\ cb'.requestCount = 0 /\ cb'.successCount = 0
                ELSE cb'.state = "HALF_OPEN"
         /\ cb'.state = "CLOSED" =>
              DidCall("recordSuccess") /\ gh'.hoSucc = cfg.halfOpenMaxRequests]_cbvars

C9_Witness ==
  /\ cb.state = "CLOSED" /\ last.op = "recordSuccess"
  /\ last.notified = <<"CLOSED">>
  /\ cfg.halfOpenMaxRequests >= 2 /\ gh.hoSucc = cfg.halfOpenMaxRequests

\* C10: any failure recorded while HALF_OPEN moves the breaker back to OPEN,
\* whatever failureThreshold is and whatever successes came before.
C10_HalfOpenFailureReopens ==
  [][cb.state = "HALF_OPEN" /\ DidCall("recordFailure") => cb'.state = "OPEN"]_cbvars

\* C11: during one HALF_OPEN period the breaker admits at most
\* halfOpenMaxRequests requests in total, the request whose beforeRequest()
\* moved it from OPEN to HALF_OPEN included.
C11_HalfOpenAdmitsAtMost ==
  cb.state = "HALF_OPEN" => gh.hoAdmit <= cfg.halfOpenMaxRequests

\* C12: a request the breaker turns away is rejected with the circuit-open
\* failure itself, Error('Circuit breaker is open'): neither the custom error
\* handler nor the built-in classification changes it.
C12_DenialNotClassified ==
  [][\A r \in Reqs :
       /\ reqs[r].pc \in {"idle", "delay"} /\ reqs'[r].pc = "done"
       /\ DidCall("beforeRequest") /\ last'.ret = FALSE
       => reqs'[r].result = CircuitOpenError]_vars

\* ------------------------------------------------------------------------
\* Properties of the rate limiter
\* ------------------------------------------------------------------------
\* C13: tryAcquire() refills, then returns true and takes exactly one token
\* iff at least one token is there, and otherwise returns false and takes
\* nothing; of k calls made at the same instant on a full bucket exactly
\* min(k, maxRequests) succeed; a call made windowMs / maxRequests or more
\* after the bucket was emptied succeeds.
C13_TryAcquire ==
  [][DidCall("tryAcquire") =>
       LET refilled == refill(rl, now).tokens
           one      == FloatOfInt(1)
       IN /\ last'.ret = (FloatCmp(refilled, one) >= 0)
          /\ last'.ret => FloatAdd(rl'.tokens, one) = refilled
          /\ ~last'.ret => rl'.tokens = refilled
          /\ gh'.fullAt # Unset => gh'.wins = Min(gh'.calls, cfg.maxRequests)
          /\ gh.emptiedAt # Unset
               /\ (now - gh.emptiedAt) * cfg.maxRequests >= cfg.windowMs
               => last'.ret = TRUE]_vars

\* C15: the limiter always holds between 0 and maxRequests tokens, and over
\* any interval of length T the successful acquisitions number at most
\* maxRequests + T * maxRequests / windowMs.
C15_TokensAndRateBounded ==
  /\ FloatCmp(rl.tokens, FloatOfInt(0)) >= 0
  /\ FloatCmp(rl.tokens, FloatOfInt(cfg.maxRequests)) <= 0
  /\ \A i, j \in 1..Len(gh.log) :
       i <= j =>
         (j - i + 1 - cfg.maxRequests) * cfg.windowMs
           <= (gh.log[j] - gh.log[i]) * cfg.maxRequests

C15_Witness ==
  /\ Len(gh.log) > cfg.maxRequests
  /\ \E i, j \in 1..Len(gh.log) :
       /\ gh.log[i] < gh.log[j]
       /\ (j - i + 1 - cfg.maxRequests) * cfg.windowMs
            = (gh.log[j] - gh.log[i]) * cfg.maxRequests

\* C14: with a rate limit and a full bucket, of k requests issued at the
\* same instant exactly min(k, maxRequests) reach the transport; each of the
\* others is rejected with RateLimitError, is never handed to the transport
\* and is not retried.  (The bucket is full at construction; the requests,
\* none of them cancelled, are all past the interceptor and the dispatch with
\* the clock still at the instant of construction.)
C14_BurstAdmitsMaxRequests ==
  /\ cfg.rateLimit /\ now = ConstructedAt
  /\ \A r \in Reqs : reqs[r].pc \notin {"idle", "rate", "track", "dispatch"}
  /\ \A r \in Reqs : ~reqs[r].cancelled
  => /\ Cardinality({r \in Reqs : reqs[r].sent >= 1}) = Min(NumReqs, cfg.maxRequests)
     /\ \A r \in Reqs :
          reqs[r].sent = 0 =>
            /\ reqs[r].pc = "done"
            /\ reqs[r].result = LibError("RateLimitError", "Rate limit exceeded")
            /\ reqs[r].hooks = <<>>

\* ------------------------------------------------------------------------
\* Properties of the context cache
\* ------------------------------------------------------------------------
\* C16: after any sequence of requests, completions, retries, evictions and
\* calls of destroy(), the context cache never holds more entries than
\* contextThreshold.
C16_CacheWithinThreshold ==
  Cardinality(DOMAIN lru.cache) <= cfg.contextThreshold

\* ------------------------------------------------------------------------
\* Properties of cancellation
\* ------------------------------------------------------------------------
\* C17: when the cancel token of a request is triggered before its retry
\* delay starts or during the delay, the request is not re-issued, its
\* context is removed from the cache, and the caller receives a
\* CancellationError.  (Stated for requests without a body.)
C17_CancelledRetry ==
  [][\A r \in Reqs :
       /\ reqs[r].config.data = NoData
       /\ \/ reqs[r].pc = "hook" /\ reqs[r].cancelled /\ reqs'[r].pc # "hook"
          \/ reqs[r].pc = "delay" /\ ~reqs[r].cancelled /\ reqs'[r].cancelled
       => /\ reqs'[r].pc = "done"
          /\ reqs'[r].result.name = "CancellationError"
          /\ reqs'[r].sent = reqs[r].sent
          /\ ~(Cached(r))']_vars

\* ------------------------------------------------------------------------
\* Properties of the retry decision
\* ------------------------------------------------------------------------
\* C18: a retry condition that throws (or rejects) makes the failure not
\* retryable: no retry is made and the request rejects with the
\* classification of that attempt's error; and when retryCount has reached
\* the effective maxRetries the condition is not called at all.
C18_ThrowingConditionGivesUp ==
  [][\A r \in Reqs :
       /\ reqs'[r].pc = "await" /\ reqs[r].pc = "sent" =>
            LET context == heap'[reqs'[r].ctx]
            IN /\ cfg.retryCondition = "throws" => ~reqs'[r].retry
               /\ context.retryCount >= EffectiveMaxRetries(context, cfg) =>
                    reqs'[r].asked = 0 /\ ~reqs'[r].retry
       /\ reqs[r].pc = "await" /\ reqs'[r].pc # "await"
          /\ cfg.retryCondition = "throws" =>
            /\ reqs'[r].pc = "done"
            /\ reqs'[r].result = handleError(reqs[r].error, cfg)
            /\ reqs'[r].sent = reqs[r].sent
            /\ reqs'[r].hooks = reqs[r].hooks]_vars

C18_Witness ==
  \E r \in Reqs :
    /\ cfg.retryCondition = "throws" /\ cfg.maxRetries >= 1
    /\ reqs[r].pc = "done" /\ reqs[r].asked = 1
    /\ reqs[r].sent = 1 /\ reqs[r].hooks = <<>>
    /\ reqs[r].result = HttpErrorOf("ServerError", RetryableStatus)

\* ------------------------------------------------------------------------
\* Properties of the retry delay
\* ------------------------------------------------------------------------
\* C19: when the attempt failed with 429 and a Retry-After header of s
\* seconds, the delay before the next attempt is s * 1000 ms, whichever
\* backoff strategy is configured.
C19_RetryAfterOverrides ==
  /\ heap[1].retryCount >= 1
  /\ reqs[1].error.status = 429 /\ reqs[1].error.retryAfter # NoHeader
  => reqs[1].delay = reqs[1].error.retryAfter * 1000

\* the Fibonacci numbers with Fib(1) = Fib(2) = 1
RECURSIVE Fib(_)
Fib(n) == IF n <= 2 THEN 1 ELSE Fib(n - 1) + Fib(n - 2)

FibonacciSeconds == <<1, 1, 2, 3, 5>>
ExponentialSeconds == <<2, 4, 8, 16, 32>>

\* C20: without a Retry-After override the delay of retry k is 2^k * 1000 ms
\* for exponential, k * 1000 for linear, Fib(k) * 1000 for fibonacci and
\* customBackoff(k, error) for custom; for k = 1..5 fibonacci gives
\* 1, 1, 2, 3, 5 seconds and exponential 2, 4, 8, 16, 32 seconds.
C20_DelayByStrategy ==
  LET k     == heap[1].retryCount
      error == reqs[1].error
      delay == reqs[1].delay
  IN (k >= 1 /\ error.retryAfter = NoHeader) =>
       /\ cfg.backoffStrategy = "exponential" => delay = (2 ^ k) * 1000
       /\ cfg.backoffStrategy = "linear" => delay = k * 1000
       /\ cfg.backoffStrategy = "fibonacci" => delay = Fib(k) * 1000
       /\ cfg.backoffStrategy = "custom" =>
            delay = ApplyCustomBackoff(cfg.customBackoff, k, error)
       /\ (cfg.backoffStrategy = "fibonacci" /\ k <= Len(FibonacciSeconds)) =>
            delay = FibonacciSeconds[k] * 1000
       /\ (cfg.backoffStrategy = "exponential" /\ k <= Len(ExponentialSeconds)) =>
            delay = ExponentialSeconds[k] * 1000

\* the fifth retry of a fibonacci client after a 500 waits five seconds
C20_Witness ==
  /\ cfg.backoffStrategy = "fibonacci"
  /\ reqs[1].error = AxiosError(RetryableStatus, "")
  /\ heap[1].retryCount = 5
  /\ reqs[1].delay = 5000

\* ------------------------------------------------------------------------
\* Properties of the classification
\* ------------------------------------------------------------------------
\* C21: with no custom handler every failure of the transport maps to one
\* kind fixed by its status and code: 429 RateLimitError, 422
\* ValidationError, other 4xx ClientError, 5xx ServerError, any other status
\* HttpError; without a response ECONNABORTED and ETIMEDOUT TimeoutError and
\* anything else NetworkError; an error that is a RateLimit, Cancellation,
\* Timeout or Validation error already is returned unchanged.
C21_KindByStatusAndCode ==
  LET error  == reqs[1].error
      result == reqs[1].result
      status == error.status
  IN (cfg.customErrorHandler = "" /\ last.op = "handleError") =>
       IF error.name = "AxiosError"
         THEN result.name =
                CASE status = 0 /\ error.code \in {"ECONNABORTED", "ETIMEDOUT"} -> "TimeoutError"
                  [] status = 0 -> "NetworkError"
                  [] status = 429 -> "RateLimitError"
                  [] status = 422 -> "ValidationError"
                  [] status \in 400..499 -> "ClientError"
                  [] status \in 500..599 -> "ServerError"
                  [] OTHER -> "HttpError"
         ELSE error.name \in TaxonomyUnchanged => result = error

\* C22: when the custom handler returns an error of the taxonomy or a plain
\* (non-transport) error, exactly that error is what the caller gets,
\* whatever its kind and message.
C22_CustomErrorSurfaced ==
  LET returned == customErrorHandler(reqs[1].error, cfg.customErrorHandler)
  IN (/\ cfg.customErrorHandler # ""
      /\ last.op = "handleError"
      /\ InstanceOfError(returned)
      /\ returned.name # "AxiosError")
       => reqs[1].result = returned

\* ------------------------------------------------------------------------
\* Properties of the request categories
\* ------------------------------------------------------------------------
\* the client-wide settings with those a category sets in their place
WithSettings(c, settings) ==
  [c EXCEPT !.maxRetries = IF settings.maxRetries # Unset THEN settings.maxRetries ELSE @,
            !.retryCondition = IF settings.retryCondition # ""
                                 THEN settings.retryCondition ELSE @,
            !.backoffStrategy = IF settings.backoffStrategy # ""
                                  THEN settings.backoffStrategy ELSE @,
            !.customBackoff = IF settings.customBackoff # Unset
                                THEN settings.customBackoff ELSE @,
            !.requestCategories = <<>>]

\* the retry decisions about request r are those of a client without
\* categories whose client-wide settings are c, and its context records name
DecidesBy(r, name, c) ==
  LET context == heap[reqs[r].ctx]
      plain   == [context EXCEPT !.category = ""]
  IN /\ context.category = name
     /\ reqs[r].pc = "await" => reqs[r].retry = shouldRetry(reqs[r].error, plain, c)
     /\ reqs[r].pc = "hook" => reqs[r].delay = calculateRetryDelay(plain, reqs[r].error, c)

Accepting(r, categories) ==
  {i \in 1..Len(categories) : reqs[r].config.url \in categories[i].matcher}

\* C23: the first category in declaration order whose matcher accepts the
\* request is recorded on its context, and every retry decision uses that
\* category's maxRetries, retryCondition, backoffStrategy and customBackoff
\* where it sets them and the client-wide values otherwise; a request that
\* matches no category uses the client-wide values.
C23_FirstDeclaredCategory ==
  \A r \in Reqs :
    reqs[r].pc \in {"await", "hook"} =>
      LET declared == cfg.requestCategories
          accepting == Accepting(r, declared)
      IN IF accepting = {}
           THEN DecidesBy(r, "", WithSettings(cfg, NoSettings))
           ELSE LET first == CHOOSE i \in accepting : \A j \in accepting : i <= j
                IN DecidesBy(r, declared[first].name,
                             WithSettings(cfg, declared[first].settings))

\* ------------------------------------------------------------------------
\* Properties of the dry run
\* ------------------------------------------------------------------------
\* C24: in dry-run mode request() resolves with the canned status-200
\* response and there is no network activity: no attempt is handed to the
\* transport, and the circuit breaker, the rate limiter and the context cache
\* are left unchanged.
C24_DryRunTouchesNothing ==
  [][cfg.dryRun =>
       /\ UNCHANGED <<cb, rl, lru, heap>>
       /\ \A r \in Reqs :
            /\ reqs'[r].sent = 0
            /\ reqs[r].pc # reqs'[r].pc =>
                 /\ reqs'[r].pc = "done"
                 /\ reqs'[r].result.name = "Response" /\ reqs'[r].result.status = 200]_vars

\* every request of a dry-run client has resolved, with a rate limiter of one
\* token that is still full
C24_Witness ==
  /\ cfg.dryRun
  /\ \A r \in Reqs : reqs[r].pc = "done" /\ reqs[r].result = DryRunResponse /\ reqs[r].sent = 0
  /\ rl = NewTokenBucketRateLimiter(cfg.maxRequests, cfg.windowMs, 0)
  /\ cb = NewCircuitBreaker(0)
  /\ lru = NewLRUCache(cfg.contextThreshold)

\* ------------------------------------------------------------------------
\* Properties of the life of a context
\* ------------------------------------------------------------------------
\* C25: a context is deleted when its request settles: once a request has
\* resolved, has been rejected after its last attempt, or has been cancelled,
\* the cache holds no context created for it.
C25_SettledLeavesNoContext ==
  \A r \in Reqs : reqs[r].pc = "done" => ~Cached(r)

\* C26: the request key is stable across a request's life and separates
\* requests: the key under which the context of a request was stored at
\* interception is the key derived from the configuration the transport
\* attaches to the response or error of every attempt, and two requests that
\* differ in method, URL, parameters or body have different keys.
C26_KeyStableAndDistinct ==
  /\ \A r \in Reqs : \A k \in DOMAIN lru.cache :
       reqs[r].pc = "sent" /\ heap[lru.cache[k]].requestConfig = r
         => k = generateRequestId(reqs[r].config)
  /\ \A c1, c2 \in RequestConfigs :
       c1 # c2 => generateRequestId(c1) # generateRequestId(c2)

\* C27: the attempts list of a request's context is append-only, with one
\* entry per failed attempt and none ever removed: when handleErrorResponse
\* has recorded a failure of a request (onFailed is invoked next when no
\* retry follows) the list of its context holds one entry for every attempt
\* of the request that was handed to the transport.
C27_AttemptsAppendOnly ==
  \A r \in Reqs :
    reqs[r].pc = "await" /\ reqs[r].sent < MaxSent =>
      Len(heap[reqs[r].ctx].attempts) = reqs[r].sent

\* ------------------------------------------------------------------------
\* Properties of the admission of retries
\* ------------------------------------------------------------------------
\* C28: a retry passes the admission of a first attempt.  When its delay
\* ends (the step is not the triggering of its cancel token) the breaker is
\* asked, and if the breaker is OPEN with resetTimeout not elapsed the retry
\* is rejected with the circuit-open failure and is not sent.  At the limiter
\* a token is acquired: if the refilled bucket holds less than one token the
\* retry is rejected with RateLimitError and is not sent, otherwise exactly
\* one token is taken.  A retry is handed to the transport only by the
\* dispatch, which is reached only from the limiter's check.
C28_RetryReadmitted ==
  [][\A r \in Reqs :
       LET before  == reqs[r]
           after   == reqs'[r]
           isRetry == before.sent >= 1
           one     == FloatOfInt(1)
           refilled == refill(rl, now).tokens
       IN /\ before.pc = "delay" /\ after.pc # "delay" /\ after.cancelled = before.cancelled
              => /\ DidCall("beforeRequest")
                 /\ after.sent = before.sent
                 /\ after.pc \in {"rate", "done"}
                 /\ cb.state = "OPEN" /\ now - gh.openedAt < cfg.resetTimeout
                      => after.pc = "done" /\ after.result = CircuitOpenError
          /\ isRetry /\ cfg.rateLimit /\ before.pc = "rate" /\ after.pc # "rate"
              => /\ after.sent = before.sent
                 /\ IF FloatCmp(refilled, one) < 0
                      THEN /\ after.pc = "done"
                           /\ after.result = LibError("RateLimitError", "Rate limit exceeded")
                           /\ rl'.tokens = refilled
                      ELSE /\ after.pc = "track"
                           /\ FloatAdd(rl'.tokens, one) = refilled
          /\ isRetry /\ after.sent > before.sent => before.pc = "dispatch"
          /\ isRetry /\ after.pc = "dispatch" /\ before.pc # "dispatch"
              => before.pc = IF cfg.rateLimit THEN "track" ELSE "rate"
          /\ isRetry /\ after.pc = "track" /\ before.pc # "track" => before.pc = "rate"
          /\ isRetry /\ after.pc = "rate" /\ before.pc # "rate" => before.pc = "delay"]_vars

\* ------------------------------------------------------------------------
\* Properties of concurrent trial requests
\* ------------------------------------------------------------------------
\* C29: with halfOpenMaxRequests = N, of N + 1 requests that arrive after
\* resetTimeout has elapsed on an OPEN breaker, before any result is
\* recorded, every one is admitted: the one that moves the breaker to
\* HALF_OPEN takes none of the N trial slots.  When they all succeed the
\* breaker ends CLOSED: the N-th success closes it and the last one leaves it
\* closed.
C29_TrialsAdmitOneMore ==
  [][/\ cb.state = "OPEN" /\ now - cb.lastStateChange >= cfg.resetTimeout
          /\ DidCall("beforeRequest")
        => last'.ret /\ cb'.state = "HALF_OPEN" /\ gh'.hoAdmit = 1
     /\ cb.state = "HALF_OPEN" /\ gh.hoSucc = 0
          /\ gh.hoAdmit <= cfg.halfOpenMaxRequests /\ DidCall("beforeRequest")
        => last'.ret /\ cb'.state = "HALF_OPEN" /\ gh'.hoAdmit = gh.hoAdmit + 1
     /\ cb.state = "HALF_OPEN" /\ gh.hoAdmit = cfg.halfOpenMaxRequests + 1
          /\ DidCall("recordSuccess")
        => cb'.state = IF gh.hoSucc + 1 = cfg.halfOpenMaxRequests
                         THEN "CLOSED" ELSE "HALF_OPEN"
     /\ cb.state = "CLOSED" /\ DidCall("recordSuccess")
        => cb'.state = "CLOSED"]_cbvars

\* halfOpenMaxRequests + 1 requests have been admitted at the instant
\* resetTimeout elapsed, the last of them just now, and no result has been
\* recorded yet
C29_Witness ==
  /\ cfg.halfOpenMaxRequests = MaxHalfOpen
  /\ cb.state = "HALF_OPEN" /\ cb.lastStateChange = now
  /\ now - gh.openedAt = cfg.resetTimeout
  /\ gh.hoAdmit = cfg.halfOpenMaxRequests + 1 /\ gh.hoSucc = 0
  /\ last.op = "beforeRequest" /\ last.ret = TRUE

\* ------------------------------------------------------------------------
\* The cache against a reference LRU map
\* ------------------------------------------------------------------------
\* The reference map is the sequence of its entries, most recently used
\* first.
Entries(c) == [i \in 1..Len(c.list) |-> [key |-> c.list[i], value |-> c.cache[c.list[i]]]]

RefHas(entries, key) == \E i \in 1..Len(entries) : entries[i].key = key

RefValue(entries, key) == entries[CHOOSE i \in 1..Len(entries) : entries[i].key = key].value

RefWithout(entries, key) == SelectSeq(entries, LAMBDA e : e.key # key)

RefGet(entries, key) ==
  IF RefHas(entries, key)
    THEN [entries |-> <<[key |-> key, value |-> RefValue(entries, key)]>>
                        \o RefWithout(entries, key),
          ret |-> RefValue(entries, key)]
    ELSE [entries |-> entries, ret |-> Undefined]

RefSet(entries, key, value, capacity) ==
  LET entry == [key |-> key, value |-> value]
  IN IF RefHas(entries, key)
       THEN <<entry>> \o RefWithout(entries, key)
       ELSE SubSeq(<<entry>> \o entries, 1, Min(capacity, Len(entries) + 1))

\* C30: the cache behaves as a reference LRU map of the given capacity: it
\* holds every key once, and each call leaves it as the same call leaves the
\* reference map.  get of a present key returns its value and makes the key
\* most recently used; set of a present key replaces the value, makes the key
\* most recently used and evicts nothing; set of a new key on a full map
\* evicts the least recently used key only; delete and clear remove the given
\* key and all keys.
C30_RefinesReferenceLRU ==
  [][LET before == Entries(lru)
         after  == Entries(lru')
     IN /\ DOMAIN lru'.cache = {lru'.list[i] : i \in 1..Len(lru'.list)}
        /\ Len(lru'.list) = Cardinality(DOMAIN lru'.cache)
        /\ DidCall("get") =>
             /\ after = RefGet(before, last'.key).entries
             /\ last'.ret = RefGet(before, last'.key).ret
        /\ DidCall("set") =>
             after = RefSet(before, last'.key, last'.value, cfg.capacity)
        /\ DidCall("delete") => after = RefWithout(before, last'.key)
        /\ DidCall("clear") => after = <<>>]_vars

\* ------------------------------------------------------------------------
\* Properties of the sweep of old contexts
\* ------------------------------------------------------------------------
\* the step ends an interception of request r: the interceptor has thrown at
\* the breaker's or the limiter's check, or it has stored the context and
\* returned
Intercepted(r) ==
  /\ ~cfg.dryRun
  /\ reqs'[r].cancelled = reqs[r].cancelled
  /\ \/ reqs[r].pc \in {"idle", "delay", "rate"} /\ reqs'[r].pc = "done"
     \/ reqs[r].pc \in {"rate", "track"} /\ reqs'[r].pc = "dispatch"

\* C31: right after every request interception, of a first attempt or of a
\* retry, the cache holds no context older than contextMaxAge, whatever its
\* size; an interception that stores a context stores a fresh one, and the
\* first retry of a request reports retryCount 1.
C31_ExpiredSwept ==
  [][\A r \in Reqs :
       /\ Intercepted(r)
            => \A k \in DOMAIN lru'.cache :
                 now - heap'[lru'.cache[k]].startTime <= cfg.contextMaxAge
       /\ Intercepted(r) /\ reqs'[r].pc = "dispatch"
            => LET context == heap'[lru'.cache[generateRequestId(reqs'[r].config)]]
               IN /\ context.requestConfig = r
                  /\ context.startTime = now
                  /\ context.retryCount = 0
                  /\ context.attempts = <<>>
       /\ reqs[r].hooks = <<>> /\ reqs'[r].hooks # <<>>
            => reqs'[r].hooks = <<1>>]_vars

\* ------------------------------------------------------------------------
\* Properties of concurrent requests
\* ------------------------------------------------------------------------
\* the cached context that the response or error of request r's attempt at
\* the transport will be matched with, Undefined when there is none
ContextOf(r) == LRUGet(lru, generateRequestId(reqs[r].config)).ret

\* C32: no context ever has two attempts outstanding at once: two attempts
\* that are at the transport at the same time are never matched with the
\* same context, and no attempt is at the transport on a context while a
\* retry is being prepared or delayed on it.
C32_OneAttemptPerContext ==
  \A r, q \in Reqs :
    /\ r # q
    /\ reqs[r].pc = "sent" /\ ContextOf(r) # Undefined
    /\ reqs[q].pc \in {"sent", "await", "hook"}
    => ContextOf(r) # (IF reqs[q].pc = "sent" THEN ContextOf(q) ELSE reqs[q].ctx)

\* the content of a body, whether it is still the object or already its JSON
\* text
BodyContent(data) ==
  <<data.type = "none",
    {data.keys[i] : i \in 1..Len(data.keys)}
      \cup ({data.text[i] : i \in 1..Len(data.text)} \ {"{", "}"})>>

\* the two configurations differ in method, URL, parameters or body
DifferentIdentity(c1, c2) ==
  <<c1.method, c1.baseURL, c1.url, c1.params, BodyContent(c1.data)>>
    # <<c2.method, c2.baseURL, c2.url, c2.params, BodyContent(c2.data)>>

\* the context request q owns in the cache c with contexts h, NullCtx when it
\* owns none
OwnContext(c, h, q) ==
  IF \E k \in DOMAIN c.cache : h[c.cache[k]].requestConfig = q
    THEN h[c.cache[CHOOSE k \in DOMAIN c.cache : h[c.cache[k]].requestConfig = q]]
    ELSE NullCtx

\* no other request has the identity of request r, before or after the step
OwnIdentity(r) ==
  \A q \in Reqs \ {r} :
    /\ DifferentIdentity(reqs[r].config, reqs[q].config)
    /\ DifferentIdentity(reqs'[r].config, reqs'[q].config)

\* the contexts of request q, cached or held by its error handler
ContextsOf(h, q) == {i \in CtxIds : h[i] # NullCtx /\ h[i].requestConfig = q}

\* C33: requests with different identities own independent contexts under
\* every interleaving.  A step of one request (an interception, a failure, a
\* retry, a completion, a cancellation) never changes the retryCount or the
\* attempts of a context of a request of another identity; the only thing it
\* can do to such a context is to evict it from a full cache, or sweep it
\* when it has expired, while it stores its own.  For a request whose
\* identity no other request has: the failure of an attempt is recorded on
\* the context stored for that request and on no other, or on none when that
\* context is no longer in the cache (then the request is rejected and
\* nothing is recorded); and each call of onRetry reports the retryCount of
\* the request's own context, the first one 1.
C33_IndependentContexts ==
  [][\A r \in Reqs :
       /\ \A q \in Reqs \ {r} :
            /\ reqs'[r] # reqs[r] /\ reqs'[q] = reqs[q]
            /\ DifferentIdentity(reqs[r].config, reqs[q].config)
            /\ DifferentIdentity(reqs'[r].config, reqs'[q].config)
            => \A i \in ContextsOf(heap, q) :
                 \/ heap'[i] = heap[i]
                 \/ /\ heap'[i] = NullCtx
                    /\ reqs[r].pc \in {"rate", "track"} /\ reqs'[r].pc = "dispatch"
                    /\ \/ Cardinality(DOMAIN lru.cache) >= lru.capacity
                       \/ now - heap[i].startTime > cfg.contextMaxAge
       /\ OwnIdentity(r) /\ reqs[r].pc = "sent" /\ reqs'[r].pc # "sent"
          /\ reqs'[r].answer # 200 /\ ~reqs[r].cancelled
          => IF ContextOf(r) # Undefined
               THEN /\ reqs'[r].pc = "await" /\ reqs'[r].ctx = ContextOf(r)
                    /\ heap[ContextOf(r)].requestConfig = r
                    /\ Len(heap'[ContextOf(r)].attempts) = Len(heap[ContextOf(r)].attempts) + 1
                    /\ \A i \in CtxIds \ {ContextOf(r)} : heap'[i] = heap[i]
               ELSE reqs'[r].pc = "done" /\ heap' = heap /\ lru' = lru
       /\ OwnIdentity(r) /\ Len(reqs'[r].hooks) > Len(reqs[r].hooks)
          => /\ heap'[reqs[r].ctx].requestConfig = r
             /\ heap'[reqs[r].ctx].retryCount = heap[reqs[r].ctx].retryCount + 1
             /\ reqs'[r].hooks[Len(reqs'[r].hooks)] = heap'[reqs[r].ctx].retryCount
             /\ reqs'[r].hooks[1] = 1
             /\ \A i \in CtxIds \ {reqs[r].ctx} : heap'[i] = heap[i]]_vars

\* two requests of different paths are both being retried, each on its own
\* context with retryCount 1 and one recorded attempt
C33_Witness ==
  \E r, q \in Reqs :
    /\ r # q /\ reqs[r].config.url # reqs[q].config.url
    /\ reqs[r].pc = "hook" /\ reqs[q].pc = "hook"
    /\ reqs[r].hooks = <<1>> /\ reqs[q].hooks = <<1>>
    /\ reqs[r].ctx # reqs[q].ctx
    /\ \A x \in {r, q} : /\ heap[reqs[x].ctx].requestConfig = x
                         /\ heap[reqs[x].ctx].retryCount = 1
                         /\ Len(heap[reqs[x].ctx].attempts) = 1

\* ------------------------------------------------------------------------
\* Properties of the breaker within the client
\* ------------------------------------------------------------------------
\* C34: HALF_OPEN is never a trap: whenever the breaker is HALF_OPEN and
\* every request that was issued has settled, the breaker still admits a
\* further request.  (With no request outstanding nothing but an admitted
\* request can move the breaker out of HALF_OPEN.)
C34_HalfOpenNoTrap ==
  cb.state = "HALF_OPEN" /\ (\A r \in Reqs : reqs[r].pc \in {"idle", "done"})
    => beforeRequest(cb, now, cfg).ret

\* C35: a request that reached the transport reports exactly one outcome to
\* the breaker when it settles: recordSuccess when it resolves, recordFailure
\* when it is rejected after the failure of its last attempt; a failed
\* attempt that is retried reports nothing, and a rejection at admission
\* reports nothing.
C35_OneReportPerRequest ==
  [][\A r \in Reqs :
       LET before == reqs[r]
           after  == reqs'[r]
           report == last'.seq # last.seq /\ last'.op \in {"recordSuccess", "recordFailure"}
       IN /\ before.pc \in {"sent", "await"} /\ after.pc = "done"
               /\ after.cancelled = before.cancelled
             => IF after.result.name = "Response"
                  THEN DidCall("recordSuccess")
                  ELSE DidCall("recordFailure")
          /\ before.pc = "await" /\ after.pc = "hook" => ~report
          /\ before.pc \in {"idle", "delay", "rate"} /\ after.pc = "done" => ~report]_vars

\* request r, which is at the transport, was admitted before the breaker
\* last opened: the breaker is OPEN (it admits nobody while OPEN), or it is
\* HALF_OPEN and the attempt was intercepted before the opening
AdmittedBeforeOpening(r) ==
  \/ cb.state = "OPEN"
  \/ /\ cb.state = "HALF_OPEN"
     /\ OwnContext(lru, heap, r) # NullCtx
     /\ OwnContext(lru, heap, r).startTime < gh.openedAt

\* C36: only the successes of trial requests count: the success of a request
\* that was admitted before the breaker opened, arriving late, neither closes
\* the breaker nor counts toward halfOpenMaxRequests nor resets the failure
\* count.
C36_OnlyTrialsCount ==
  [][\A r \in Reqs :
       /\ reqs[r].pc = "sent" /\ reqs'[r].pc = "done"
       /\ DidCall("recordSuccess")
       /\ AdmittedBeforeOpening(r)
       => /\ cb'.state = cb.state
          /\ cb'.successCount = cb.successCount
          /\ cb'.failures = cb.failures]_vars

\* ------------------------------------------------------------------------
\* Properties of the breaker while OPEN
\* ------------------------------------------------------------------------
\* C37: once the breaker has opened, a request that arrives resetTimeout or
\* more after the opening is admitted as a trial, whatever failures were
\* recorded in between: a failure recorded while OPEN neither restarts the
\* reset timer nor notifies the observer.
C37_OpenTimerNotRestarted ==
  [][/\ cb.state = "OPEN" /\ DidCall("recordFailure")
        => /\ cb'.state = "OPEN"
           /\ cb'.lastStateChange = cb.lastStateChange
           /\ last'.notified = <<>>
     /\ cb.state = "OPEN" /\ now - gh.openedAt >= cfg.resetTimeout
          /\ DidCall("beforeRequest")
        => last'.ret /\ cb'.state = "HALF_OPEN"]_cbvars

\* ------------------------------------------------------------------------
\* Properties of a rejection at admission
\* ------------------------------------------------------------------------
\* C38: a request rejected at admission changes no other resilience state.
\* A request the breaker turns away takes no token and touches no context;
\* a request the limiter turns away leaves the breaker's state and counters
\* as they were when it arrived, at its breaker check and at its rejection,
\* and touches no context.
C38_DenialChangesNothingElse ==
  [][\A r \in Reqs :
       LET before == reqs[r]
           after  == reqs'[r]
       IN /\ before.pc \in {"idle", "delay"} /\ DidCall("beforeRequest") /\ ~last'.ret
               /\ after.pc = "done"
             => UNCHANGED <<rl, lru, heap>>
          /\ before.pc \in {"idle", "delay"} /\ after.pc = "rate"
               /\ cfg.rateLimit /\ ~tryAcquire(rl, now).ret
             => cb' = cb /\ UNCHANGED <<lru, heap>>
          /\ before.pc = "rate" /\ after.pc = "done"
             => cb' = cb /\ UNCHANGED <<lru, heap>>]_vars

\* ------------------------------------------------------------------------
\* Invariants of the breaker's counters
\* ------------------------------------------------------------------------
\* C39: in every reachable state of the breaker (failureThreshold >= 1 and
\* halfOpenMaxRequests >= 1) requestCount is at most halfOpenMaxRequests and
\* successCount is below halfOpenMaxRequests; both are 0 whenever the state
\* is CLOSED or OPEN; and failures is below failureThreshold whenever the
\* state is CLOSED.
C39_CounterInvariants ==
  /\ cb.requestCount \in 0..cfg.halfOpenMaxRequests
  /\ cb.successCount \in 0..(cfg.halfOpenMaxRequests - 1)
  /\ cb.state \in {"CLOSED", "OPEN"} => cb.requestCount = 0 /\ cb.successCount = 0
  /\ cb.state = "CLOSED" => cb.failures < cfg.failureThreshold

\* the breaker opened by a failure after a HALF_OPEN period in which every
\* trial slot was taken and a trial success was counted without closing it
C39_Witness ==
  /\ cb.state = "OPEN" /\ last.op = "recordFailure" /\ last.notified = <<"OPEN">>
  /\ gh.hoAdmit = cfg.halfOpenMaxRequests + 1
  /\ gh.hoSucc > 0 /\ gh.hoSucc < cfg.halfOpenMaxRequests

\* ------------------------------------------------------------------------
\* Invariants of the cache's linked list
\* ------------------------------------------------------------------------
\* the keys met from head along next, and from tail along prev, at most
\* `fuel` of them
RECURSIVE Along(_, _, _, _)
Along(c, n, dir, fuel) ==
  IF n = NullNode \/ n \notin DOMAIN c.store \/ fuel = 0
    THEN <<>>
    ELSE <<c.store[n].key>> \o
         Along(c, IF dir = "next" THEN c.store[n].next ELSE c.store[n].prev, dir, fuel - 1)

Forward(c) == Along(c, c.head, "next", Cardinality(DOMAIN c.store) + 1)
Backward(c) == Along(c, c.tail, "prev", Cardinality(DOMAIN c.store) + 1)

Reversed(q) == [i \in 1..Len(q) |-> q[Len(q) + 1 - i]]

\* the value map, the node map and the list hold the same keys, each once;
\* the list read backwards from tail is the list read forwards from head;
\* the ends have no node before or after them; head and tail are null
\* exactly when the cache is empty
LinkedWellFormed(c) ==
  /\ DOMAIN c.nodes = DOMAIN c.cache
  /\ {Forward(c)[i] : i \in 1..Len(Forward(c))} = DOMAIN c.cache
  /\ Len(Forward(c)) = Cardinality(DOMAIN c.cache)
  /\ \A k \in DOMAIN c.nodes :
       /\ c.nodes[k] \in DOMAIN c.store /\ c.store[c.nodes[k]].key = k
       /\ \E i \in 1..Len(Forward(c)) : Forward(c)[i] = k
  /\ Backward(c) = Reversed(Forward(c))
  /\ \A n \in DOMAIN c.store :
       /\ c.store[n].next # NullNode /\ n \in {c.nodes[k] : k \in DOMAIN c.nodes}
            => c.store[c.store[n].next].prev = n
       /\ c.store[n].prev # NullNode /\ n \in {c.nodes[k] : k \in DOMAIN c.nodes}
            => c.store[c.store[n].prev].next = n
  /\ c.head # NullNode => c.store[c.head].prev = NullNode
  /\ c.tail # NullNode => c.store[c.tail].next = NullNode
  /\ (c.head = NullNode <=> DOMAIN c.cache = {})
  /\ (c.tail = NullNode <=> DOMAIN c.cache = {})

\* the structure of the three containers alone
LinkedStructure == LinkedWellFormed(lru)

\* C40: after any sequence of get, set, delete and clear the value map, the
\* node map and the linked list hold exactly the same keys, each once; the
\* list is consistently linked in both directions, with head the most
\* recently used and tail the least recently used key; head and tail are
\* null iff the cache is empty.
C40_ListInvariants ==
  /\ LinkedWellFormed(lru)
  /\ gh # <<>> => /\ lru.head # NullNode /\ lru.store[lru.head].key = gh[1]
                  /\ lru.tail # NullNode /\ lru.store[lru.tail].key = gh[Len(gh)]

====
